---- MODULE Spec2Model ----
(***************************************************************************)
(* A model of the evaluation core of bobbin's eval harness:                *)
(*                                                                         *)
(*   - the pairwise LLM judge (eval/scorer/llm_judge.py): validation of a  *)
(*     single judge response, the flip-and-draw protocol of judge_pairwise *)
(*     and the merge of the two orderings;                                 *)
(*   - the diff scorer (eval/scorer/diff_scorer.py): the derivation of the *)
(*     agent and ground-truth file sets from a git workspace and the       *)
(*     precision / recall / f1 arithmetic on them.                         *)
(*                                                                         *)
(* Text is modelled as a sequence of one-character strings, so that        *)
(* str.strip, str.lower and str.startswith are computed, not assumed.      *)
(* Judge scores are integers in hundredths (1.0 is 100), diff scores are   *)
(* integers in ten-thousandths (1.0 is 10000): these are exactly the       *)
(* grids that round(x, 2) and round(x, 4) produce.                         *)
(***************************************************************************)
EXTENDS Integers, Sequences, FiniteSets, TLC

VARIABLES
    \* ---- judge_pairwise (llm_judge.py) ----
    jpc,            \* position in judge_pairwise: "idle", "start", "forward", "flipped", "done", "error"
    diff_a,         \* argument diff_a
    diff_b,         \* argument diff_b
    calls,          \* the judge-model calls issued so far, each <<position 1, position 2>>
    resp,           \* the response of the last judge-model call
    forward,        \* validated result of the forward call
    flipped_raw,    \* validated result of the flipped call
    flipped_back,   \* _flip_result(flipped_raw)
    merged,         \* the judgement judge_pairwise returns
    jerr,           \* the exception judge_pairwise ended with, "none" if none
    \* ---- score_diff (diff_scorer.py) and the git workspace it reads ----
    dpc,            \* position in score_diff: "idle", "ready", "done"
    commits,        \* the workspace's commits: id -> [parent, tree]
    index,          \* the workspace's index (the tracked files): path -> content
    wt,             \* the workspace's working tree: path -> content, 0 when absent
    dargs,          \* the arguments of score_diff
    dres,           \* how score_diff ended: the exception or the score record
    tpc,            \* position in run_tests
    tproc,          \* what the test process did: exit code, captured output, timeout
    tres,           \* how run_tests ended: the exception or the result dict
    wpc,            \* whether the workspace manager is in use
    wrepo,          \* the mirror cache and the working copy: HEAD, commits, index, files
    wlog,           \* the workspace operations so far, each with its outcome
    \* ---- the other functions of the harness, one call at a time ----
    hpc,            \* the function that runs and its position in it, "idle" if none
    hst             \* its arguments and locals, and what it has produced so far

jvars == <<jpc, diff_a, diff_b, calls, resp, forward, flipped_raw, flipped_back, merged, jerr>>

dvars == <<dpc, commits, index, wt, dargs, dres>>

tvars == <<tpc, tproc, tres>>

wvars == <<wpc, wrepo, wlog>>

hvars == <<hpc, hst>>

vars == <<jvars, dvars, tvars, wvars, hvars>>

(* What an operation of one component leaves alone: the other component.   *)
outsideJudge == <<dvars, tvars, wvars, hvars>>
outsideDiff == <<jvars, tvars, wvars, hvars>>
outsideTest == <<jvars, dvars, wvars, hvars>>
outsideWs == <<jvars, dvars, tvars, hvars>>
outsideHarness == <<jvars, dvars, tvars, wvars>>

----------------------------------------------------------------------------
(* Text helpers: Python's str.strip / str.lower on the characters used.    *)

IsSpace(c) == c \in {" ", "\n", "\t"}

RECURSIVE LStrip(_)
LStrip(s) == IF s # <<>> /\ IsSpace(Head(s)) THEN LStrip(Tail(s)) ELSE s

RECURSIVE RStrip(_)
RStrip(s) ==
    IF s # <<>> /\ IsSpace(s[Len(s)]) THEN RStrip(SubSeq(s, 1, Len(s) - 1)) ELSE s

Strip(s) == RStrip(LStrip(s))

LowerChar(c) ==
    CASE c = "A" -> "a"
      [] c = "B" -> "b"
      [] c = "C" -> "c"
      [] c = "T" -> "t"
      [] c = "I" -> "i"
      [] c = "E" -> "e"
      [] OTHER -> c

Lower(s) == [i \in 1..Len(s) |-> LowerChar(s[i])]

(* round-half-to-even of the rational n / d (d > 0, n >= 0), the rounding  *)
(* Python's round() applies to an exactly represented value.               *)
RoundDiv(n, d) ==
    LET q == n \div d
        r == n % d
    IN  IF 2 * r < d THEN q
        ELSE IF 2 * r > d THEN q + 1
        ELSE IF q % 2 = 0 THEN q ELSE q + 1

----------------------------------------------------------------------------
(* The judge: responses of the judge model.                                *)

DIMENSIONS == <<"consistency", "completeness", "minimality">>

DimSet == {DIMENSIONS[i] : i \in 1..Len(DIMENSIONS)}

LABELS == <<"a", "b">>

WinA == <<"a">>
WinB == <<"b">>
WinTie == <<"t", "i", "e">>

ScoreMin == 100
ScoreMax == 500

(* A JSON value found where a score is expected: a number (in hundredths), *)
(* a boolean (True counts as 1, False as 0), null / absent, or a string.   *)
Num(v) == [t |-> "num", v |-> v]
BoolTrue == [t |-> "bool", v |-> 100]
NoScore == [t |-> "none", v |-> 0]
StrScore == [t |-> "str", v |-> 0]

(* The scores a well-formed response may carry. Their pairwise means are   *)
(* exact binary fractions, so that round(mean, 2) is round-half-to-even of *)
(* the exact mean: 1.0 and 2.25 average to 1.625, which rounds to 1.62.    *)
ScoreVals == {100, 225, 500}

Entry(x, y) == [present |-> TRUE, isDict |-> TRUE, a |-> x, b |-> y]
AbsentEntry == [present |-> FALSE, isDict |-> TRUE, a |-> NoScore, b |-> NoScore]
ScalarEntry == [present |-> TRUE, isDict |-> FALSE, a |-> NoScore, b |-> NoScore]

(* The entry of the dimensions a response does not vary: a 3.5, b 3.0.     *)
RestEntry == Entry(Num(350), Num(300))

(* The dimensions table in which dimension d holds entry e.                *)
DimsWith(d, e) == [x \in DimSet |-> IF x = d THEN e ELSE RestEntry]

StrWinner(s) == [isStr |-> TRUE, s |-> s]
NullWinner == [isStr |-> FALSE, s |-> <<>>]

Json(hasDims, hasWinner, dims, winner) ==
    [kind |-> "json", hasDims |-> hasDims, hasWinner |-> hasWinner,
     dims |-> dims, winner |-> winner]

(* What is not a JSON object: the call failed, the text does not parse, or *)
(* it parses to a number.                                                  *)
NonObject(kind) ==
    [Json(FALSE, FALSE, DimsWith(DIMENSIONS[1], RestEntry), NullWinner) EXCEPT !.kind = kind]

GoodWinners ==
    {WinA, WinB, WinTie, <<" ", "a", " ">>, <<"T", "I", "E">>, <<"B", "\n">>}

BadWinners == {<<"c">>, <<>>, <<"a", "b">>, <<"a", " ", "b">>, <<"t", "i">>}

BadScores == {NoScore, StrScore, Num(0), Num(99), Num(501), [t |-> "bool", v |-> 0]}

GoodDims == {DimsWith(d, Entry(Num(x), Num(y))) : d \in DimSet, x \in ScoreVals, y \in ScoreVals}
                \cup {DimsWith(d, Entry(BoolTrue, Num(225))) : d \in DimSet}

GoodResponses == {Json(TRUE, TRUE, dims, StrWinner(w)) : dims \in GoodDims, w \in GoodWinners}

(* Responses with one defect each, and a few with two.                     *)
BadDims ==
    {DimsWith(d, AbsentEntry) : d \in DimSet}
        \cup {DimsWith(d, ScalarEntry) : d \in DimSet}
        \cup {DimsWith(d, Entry(s, Num(225))) : d \in DimSet, s \in BadScores}
        \cup {DimsWith(d, Entry(Num(225), s)) : d \in DimSet, s \in BadScores}

BadResponses ==
    {NonObject(k) : k \in {"api_error", "bad_json", "json_number"}}
        \cup {Json(FALSE, TRUE, DimsWith(DIMENSIONS[1], RestEntry), StrWinner(WinA)),
              Json(TRUE, FALSE, DimsWith(DIMENSIONS[1], RestEntry), StrWinner(WinA)),
              Json(TRUE, TRUE, DimsWith(DIMENSIONS[1], RestEntry), NullWinner)}
        \cup {Json(TRUE, TRUE, dims, StrWinner(w)) : dims \in BadDims, w \in {WinA, <<"c">>}}
        \cup {Json(TRUE, TRUE, dims, NullWinner) : dims \in BadDims}
        \cup {Json(TRUE, TRUE, DimsWith(DIMENSIONS[1], RestEntry), StrWinner(w)) : w \in BadWinners}

Responses == GoodResponses \cup BadResponses

----------------------------------------------------------------------------
(* The judge: validation, un-flip and merge.                               *)

NoErr == [type |-> "none", why |-> "none"]
Raise(type, why) == [type |-> type, why |-> why]

NoResult ==
    [dimensions |-> [d \in DimSet |-> [a |-> 0, b |-> 0]], overall_winner |-> <<>>]

NoMerged ==
    [dimensions |-> [d \in DimSet |-> [a |-> 0, b |-> 0]], overall_winner |-> <<>>,
     bias_detected |-> FALSE]

(* isinstance(score, (int, float)) and 1 <= score <= 5, after the check    *)
(* that entry.get(label) is not None.                                      *)
CheckScore(score) ==
    IF score.t = "none" THEN Raise("LLMJudgeError", "missing_score")
    ELSE IF score.t \notin {"num", "bool"} \/ ~(ScoreMin <= score.v /\ score.v <= ScoreMax)
         THEN Raise("LLMJudgeError", "score_range")
    ELSE NoErr

RECURSIVE CheckLabels(_, _)
CheckLabels(entry, i) ==
    IF i > Len(LABELS) THEN NoErr
    ELSE LET e == CheckScore(IF LABELS[i] = "a" THEN entry.a ELSE entry.b)
         IN  IF e # NoErr THEN e ELSE CheckLabels(entry, i + 1)

(* The loop over DIMENSIONS of _validate_judgement: the first defect met,  *)
(* in rubric order, decides the exception. entry.get on an entry that is   *)
(* not a JSON object is an AttributeError.                                 *)
RECURSIVE CheckDims(_, _)
CheckDims(dims, i) ==
    IF i > Len(DIMENSIONS) THEN NoErr
    ELSE LET entry == dims[DIMENSIONS[i]]
         IN  IF ~entry.present THEN Raise("LLMJudgeError", "missing_dimension")
             ELSE IF ~entry.isDict THEN Raise("AttributeError", "entry_get")
             ELSE LET e == CheckLabels(entry, 1)
                  IN  IF e # NoErr THEN e ELSE CheckDims(dims, i + 1)

(* data["overall_winner"].strip().lower(): a winner that is not a string   *)
(* has no strip.                                                           *)
CheckWinner(winner) ==
    IF ~winner.isStr THEN Raise("AttributeError", "winner_strip")
    ELSE IF Lower(Strip(winner.s)) \notin {WinA, WinB, WinTie}
         THEN Raise("LLMJudgeError", "winner_token")
    ELSE NoErr

Cleaned(data) ==
    [dimensions |-> [d \in DimSet |-> [a |-> data.dims[d].a.v, b |-> data.dims[d].b.v]],
     overall_winner |-> Lower(Strip(data.winner.s))]

ValidateJudgement(data) ==
    IF ~data.hasDims THEN [err |-> Raise("LLMJudgeError", "missing_dimensions_key"), val |-> NoResult]
    ELSE IF ~data.hasWinner
         THEN [err |-> Raise("LLMJudgeError", "missing_winner_key"), val |-> NoResult]
    ELSE LET e == CheckDims(data.dims, 1)
         IN  IF e # NoErr THEN [err |-> e, val |-> NoResult]
             ELSE LET w == CheckWinner(data.winner)
                  IN  IF w # NoErr THEN [err |-> w, val |-> NoResult]
                      ELSE [err |-> NoErr, val |-> Cleaned(data)]

(* _call_llm, _extract_json and _validate_judgement in sequence.           *)
JudgeSingleOrdering(r) ==
    CASE r.kind = "api_error" -> [err |-> Raise("LLMJudgeError", "api"), val |-> NoResult]
      [] r.kind = "bad_json" -> [err |-> Raise("LLMJudgeError", "parse"), val |-> NoResult]
      [] r.kind = "json_number" -> [err |-> Raise("TypeError", "not_iterable"), val |-> NoResult]
      [] OTHER -> ValidateJudgement(r)

(* A flip that forgets to swap the two positions' scores.                  *)
FlipResultKeepsScores(result) ==
    [dimensions |-> result.dimensions,
     overall_winner |-> IF result.overall_winner = WinA THEN WinB
                        ELSE IF result.overall_winner = WinB THEN WinA ELSE WinTie]

FlipWinner(winner) ==
    IF winner = WinA THEN WinB ELSE IF winner = WinB THEN WinA ELSE WinTie

FlipResult(result) ==
    [dimensions |-> [d \in DimSet |-> [a |-> result.dimensions[d].b,
                                        b |-> result.dimensions[d].a]],
     overall_winner |-> FlipWinner(result.overall_winner)]

(* round((x + y) / 2, 2) on scores in hundredths.                          *)
MergeScore(x, y) == RoundDiv(x + y, 2)

(* A merge that trusts the forward call alone.                             *)
MergeWinnerForwardOnly(fwd, back) == fwd.overall_winner

MergeWinner(fwd, back) ==
    IF fwd.overall_winner = back.overall_winner THEN fwd.overall_winner ELSE WinTie

(* A flag that looks at the forward call alone.                            *)
BiasDetectedByForward(fwd, back) == fwd.overall_winner # WinTie

BiasDetected(fwd, back) == fwd.overall_winner # back.overall_winner

MergeResults(fwd, back) ==
    [dimensions |-> [d \in DimSet |->
                        [a |-> MergeScore(fwd.dimensions[d].a, back.dimensions[d].a),
                         b |-> MergeScore(fwd.dimensions[d].b, back.dimensions[d].b)]],
     overall_winner |-> MergeWinner(fwd, back),
     bias_detected |-> BiasDetected(fwd, back)]

----------------------------------------------------------------------------
(* The judge: judge_pairwise as a process.                                 *)

(* An emptiness test that forgets to strip.                                *)
IsBlankNoStrip(diff) == diff = <<>>

(* not diff.strip()                                                        *)
IsBlank(diff) == Strip(diff) = <<>>

Diffs == {<<>>, <<" ">>, <<"\n", " ">>, <<"x">>, <<" ", "y", "\n">>}

JudgeIdle ==
    /\ jpc = "idle"
    /\ diff_a = <<>>
    /\ diff_b = <<>>
    /\ calls = <<>>
    /\ resp = NonObject("none")
    /\ forward = NoResult
    /\ flipped_raw = NoResult
    /\ flipped_back = NoResult
    /\ merged = NoMerged
    /\ jerr = NoErr

JudgeInit ==
    /\ jpc = "start"
    /\ diff_a \in Diffs
    /\ diff_b \in Diffs
    /\ calls = <<>>
    /\ resp = NonObject("none")
    /\ forward = NoResult
    /\ flipped_raw = NoResult
    /\ flipped_back = NoResult
    /\ merged = NoMerged
    /\ jerr = NoErr

(* Lines 247-250: empty input is rejected before any call.                 *)
JudgeStart ==
    /\ jpc = "start"
    /\ IF IsBlank(diff_a)
       THEN jpc' = "error" /\ jerr' = Raise("LLMJudgeError", "diff_a_empty")
       ELSE IF IsBlank(diff_b)
            THEN jpc' = "error" /\ jerr' = Raise("LLMJudgeError", "diff_b_empty")
            ELSE jpc' = "forward" /\ jerr' = jerr
    /\ UNCHANGED <<diff_a, diff_b, calls, resp, forward, flipped_raw, flipped_back, merged>>
    /\ UNCHANGED outsideJudge

(* Line 254: the forward pass, A in position 1.                            *)
ForwardCall ==
    /\ jpc = "forward"
    /\ \E r \in Responses :
          LET out == JudgeSingleOrdering(r)
          IN  /\ calls' = Append(calls, <<diff_a, diff_b>>)
              /\ resp' = r
              /\ IF out.err # NoErr
                 THEN jpc' = "error" /\ jerr' = out.err /\ forward' = forward
                 ELSE jpc' = "flipped" /\ jerr' = jerr /\ forward' = out.val
    /\ UNCHANGED <<diff_a, diff_b, flipped_raw, flipped_back, merged>>
    /\ UNCHANGED outsideJudge

(* Lines 258-262: the flipped pass, B in position 1, the un-flip and the   *)
(* merge.                                                                  *)
FlippedCall ==
    /\ jpc = "flipped"
    /\ \E r \in Responses :
          LET out == JudgeSingleOrdering(r)
          IN  /\ calls' = Append(calls, <<diff_b, diff_a>>)
              /\ resp' = r
              /\ IF out.err # NoErr
                 THEN /\ jpc' = "error"
                      /\ jerr' = out.err
                      /\ UNCHANGED <<flipped_raw, flipped_back, merged>>
                 ELSE /\ jpc' = "done"
                      /\ jerr' = jerr
                      /\ flipped_raw' = out.val
                      /\ flipped_back' = FlipResult(out.val)
                      /\ merged' = MergeResults(forward, FlipResult(out.val))
    /\ UNCHANGED <<diff_a, diff_b, forward>>
    /\ UNCHANGED outsideJudge

JudgeNext == JudgeStart \/ ForwardCall \/ FlippedCall

----------------------------------------------------------------------------
(* Claims about the judge, checked under JudgeSpec.                        *)

Called == calls # <<>>

(* The last response was accepted by validation.                           *)
Accepted == Called /\ jpc \in {"flipped", "done"}

(* C1: for every pair of validated results (forward, un-flipped), the      *)
(* merged winner is the common winner when the two agree (tie included)    *)
(* and tie otherwise, and bias_detected is true exactly when they differ.  *)
C1_MergedWinner ==
    jpc = "done" =>
        /\ forward.overall_winner = flipped_back.overall_winner
              => merged.overall_winner = forward.overall_winner
        /\ forward.overall_winner # flipped_back.overall_winner
              => merged.overall_winner = WinTie
        /\ merged.bias_detected <=> forward.overall_winner # flipped_back.overall_winner

C1_Witness ==
    /\ jpc = "done"
    /\ forward.overall_winner = WinA
    /\ flipped_back.overall_winner = WinB
    /\ merged.overall_winner = WinTie
    /\ merged.bias_detected

(* C2, as stated: every merged score is exactly the arithmetic mean of the *)
(* forward score and the flipped call's score for the same side.           *)
C2_ExactMean ==
    jpc = "done" =>
        \A d \in DimSet :
            /\ 2 * merged.dimensions[d].a = forward.dimensions[d].a + flipped_raw.dimensions[d].b
            /\ 2 * merged.dimensions[d].b = forward.dimensions[d].b + flipped_raw.dimensions[d].a

(* The distance of a merged score m from the mean of x and y is at most    *)
(* half a hundredth, and is zero when the mean is on the hundredths grid.  *)
RoundedMean(m, x, y) ==
    /\ 2 * m - (x + y) \in {-1, 0, 1}
    /\ (x + y) % 2 = 0 => 2 * m = x + y

(* C2, amended: every merged score is the arithmetic mean of the forward   *)
(* score and the flipped call's score for the same side, rounded to two    *)
(* decimals; it is the mean itself whenever the mean has at most two       *)
(* decimals (integer scores in particular).                                *)
C2_RoundedMean ==
    jpc = "done" =>
        \A d \in DimSet :
            /\ RoundedMean(merged.dimensions[d].a,
                           forward.dimensions[d].a, flipped_raw.dimensions[d].b)
            /\ RoundedMean(merged.dimensions[d].b,
                           forward.dimensions[d].b, flipped_raw.dimensions[d].a)

C2_Witness ==
    /\ jpc = "done"
    /\ forward.dimensions["completeness"].a = 100
    /\ flipped_raw.dimensions["completeness"].b = 225
    /\ merged.dimensions["completeness"].a = 162
    /\ forward.dimensions["completeness"].b = 500
    /\ flipped_raw.dimensions["completeness"].a = 100
    /\ merged.dimensions["completeness"].b = 300

(* The defects C3 lists, read off the response itself.                     *)
MissingDimension(r) == ~r.hasDims \/ \E d \in DimSet : ~r.dims[d].present

MissingScore(r) ==
    \E d \in DimSet :
        r.dims[d].present /\ (~r.dims[d].isDict \/ r.dims[d].a.t = "none" \/ r.dims[d].b.t = "none")

OutOfRange(score) == score.t \in {"num", "bool"} /\ (score.v < 100 \/ score.v > 500)

ScoreOutOfRange(r) ==
    \E d \in DimSet :
        r.dims[d].present /\ r.dims[d].isDict /\ (OutOfRange(r.dims[d].a) \/ OutOfRange(r.dims[d].b))

UnrecognizedWinner(r) ==
    \/ ~r.hasWinner
    \/ ~r.winner.isStr
    \/ Lower(Strip(r.winner.s)) \notin {<<"a">>, <<"b">>, <<"t", "i", "e">>}

HasDefect(r) ==
    MissingDimension(r) \/ MissingScore(r) \/ ScoreOutOfRange(r) \/ UnrecognizedWinner(r)

(* C3: validation raises a judge error whenever the response misses a      *)
(* rubric dimension or a position's score, has a score outside [1,5] or a  *)
(* winner token other than a, b, tie; it accepts only defect-free ones.    *)
C3_DefectRaisesJudgeError ==
    (Called /\ resp.kind = "json") =>
        /\ HasDefect(resp) => (jpc = "error" /\ jerr.type = "LLMJudgeError")
        /\ Accepted => ~HasDefect(resp)

(* What the code does guarantee: a defective response is never accepted    *)
(* and nothing is defaulted; the exception is an LLMJudgeError unless the  *)
(* winner is not a string or a dimension's entry is not an object.         *)
ValidationNeverDefaults ==
    (Called /\ resp.kind = "json") =>
        /\ HasDefect(resp) => (jpc = "error" /\ jerr # NoErr)
        /\ (HasDefect(resp) /\ jerr.type # "LLMJudgeError")
              => (~resp.winner.isStr \/ \E d \in DimSet : ~resp.dims[d].isDict)
        /\ Accepted =>
              LET res == IF jpc = "flipped" THEN forward ELSE flipped_raw
              IN  /\ res.overall_winner = Lower(Strip(resp.winner.s))
                  /\ \A d \in DimSet : /\ res.dimensions[d].a = resp.dims[d].a.v
                                       /\ res.dimensions[d].b = resp.dims[d].b.v

(* C4: if either call fails, the comparison ends with an LLMJudgeError and *)
(* no judgement; a judgement is never produced from one successful call.   *)
C4_FailureEndsInJudgeError ==
    /\ jpc = "error" => (jerr.type = "LLMJudgeError" /\ merged = NoMerged)
    /\ jpc = "done" => (Len(calls) = 2 /\ jerr = NoErr)
    /\ merged # NoMerged => jpc = "done"

(* What the code does guarantee: no partial judgement.                     *)
NoPartialJudgement ==
    /\ jpc = "error" => (jerr # NoErr /\ merged = NoMerged)
    /\ merged # NoMerged => (jpc = "done" /\ Len(calls) = 2 /\ forward # NoResult
                             /\ flipped_raw # NoResult)

WhitespaceOnly(diff) == \A i \in 1..Len(diff) : diff[i] \in {" ", "\n", "\t"}

(* C5: when diff_a or diff_b is empty or whitespace-only, judge_pairwise   *)
(* raises LLMJudgeError and the number of judge calls issued is zero.      *)
C5_EmptyInputNoCall ==
    (WhitespaceOnly(diff_a) \/ WhitespaceOnly(diff_b)) =>
        /\ calls = <<>>
        /\ jpc \in {"start", "error"}
        /\ jpc = "error" => jerr.type = "LLMJudgeError"
        /\ merged = NoMerged

C5_Witness ==
    /\ jpc = "error"
    /\ diff_a = <<"x">>
    /\ diff_b = <<"\n", " ">>
    /\ calls = <<>>
    /\ jerr = Raise("LLMJudgeError", "diff_b_empty")

----------------------------------------------------------------------------
(* The diff scorer: paths, trees and the git commands score_diff runs.     *)

PathA == <<"a">>
PathB == <<"b">>
PathNested == <<"src", "/", ".bobbin", "/", "c">>
PathDotfile == <<".claude", ".md">>
PathBobbin == <<".bobbin", "/", "x">>
PathClaude == <<".claude", "/", "y">>

Paths == {PathA, PathB, PathNested, PathDotfile, PathBobbin, PathClaude}

INFRA_PREFIXES == <<<<".bobbin", "/">>, <<".claude", "/">>>>

(* str.startswith *)
StartsWith(f, prefix) == Len(f) >= Len(prefix) /\ SubSeq(f, 1, Len(prefix)) = prefix

(* any(f.startswith(p) for p in _INFRA_PREFIXES)                           *)
IsInfra(f) == \E i \in 1..Len(INFRA_PREFIXES) : StartsWith(f, INFRA_PREFIXES[i])

(* A filter that lets every file through.                                  *)
KeepAll(files) == files

DropInfra(files) == {f \in files : ~IsInfra(f)}

(* A tree maps every path to its content, 0 when the file is absent.       *)
EmptyTree == [p \in Paths |-> 0]

Write(tree, files, content) == [p \in Paths |-> IF p \in files THEN content ELSE tree[p]]

NoParent == "none"

Resolves(cs, ref) == ref \in DOMAIN cs

Differing(baseTree, headTree) == {p \in Paths : baseTree[p] # headTree[p]}

(* The files git's rename detection (diff.renames, on by default) pairs    *)
(* with an added file of the same content: git diff lists the new name     *)
(* only. Contents are atomic here, so only exact renames are detected.     *)
RenamedAway(baseTree, headTree) ==
    {p \in Paths : /\ baseTree[p] # 0
                   /\ headTree[p] = 0
                   /\ \E q \in Paths : baseTree[q] = 0 /\ headTree[q] = baseTree[p]}

(* The names git diff --name-only prints for two trees.                    *)
NameOnlyDiff(baseTree, headTree) ==
    Differing(baseTree, headTree) \ RenamedAway(baseTree, headTree)

(* git diff-tree --no-commit-id --name-only -r --root <commit>: the paths  *)
(* that differ from the parent's tree, all the files of a root commit.     *)
(* diff-tree detects no renames, and without -m, -c or --cc it prints      *)
(* nothing for a merge commit (a commit with other parents).               *)
FilesChangedInCommit(cs, commit) ==
    LET parentTree == IF cs[commit].parent = NoParent THEN EmptyTree
                      ELSE cs[cs[commit].parent].tree
    IN  IF cs[commit].others # {} THEN {} ELSE Differing(parentTree, cs[commit].tree)

(* git diff --name-only <base> <head> *)
FilesChangedBetween(cs, base, head) == NameOnlyDiff(cs[base].tree, cs[head].tree)

(* What git diff <base> sees of the working tree: the files of the index,  *)
(* with their content on disk; an untracked file is not seen.              *)
TrackedWorkTree(idx, w) == [p \in Paths |-> IF idx[p] # 0 THEN w[p] ELSE 0]

(* git diff --name-only <base> *)
FilesChangedInWorkTree(cs, idx, w, base) ==
    NameOnlyDiff(cs[base].tree, TrackedWorkTree(idx, w))

----------------------------------------------------------------------------
(* The diff scorer: score_diff.                                            *)

NoneRef == "None"

(* Python truthiness of an optional string argument.                       *)
Given(ref) == ref # NoneRef /\ ref # ""

TenThousandths == 10000

(* round(x, 4) of the rational x = q[1] / q[2], in ten-thousandths.        *)
Round4(q) == RoundDiv(TenThousandths * q[1], q[2])

(* A precision that divides by the size of the union.                      *)
PrecisionOverUnion(agent, gt) ==
    IF agent = {} THEN <<0, 1>> ELSE <<Cardinality(agent \cap gt), Cardinality(agent \cup gt)>>

Precision(agent, gt) ==
    IF agent = {} THEN <<0, 1>> ELSE <<Cardinality(agent \cap gt), Cardinality(agent)>>

Recall(agent, gt) ==
    IF gt = {} THEN <<0, 1>> ELSE <<Cardinality(agent \cap gt), Cardinality(gt)>>

(* An f1 that forgets the factor 2.                                        *)
F1WithoutFactor(p, r) ==
    IF p[1] * r[2] + r[1] * p[2] > 0
    THEN <<p[1] * r[1], p[1] * r[2] + r[1] * p[2]>>
    ELSE <<0, 1>>

(* 2 * p * r / (p + r) when p + r > 0, else 0, on exact rationals.         *)
F1(p, r) ==
    IF p[1] * r[2] + r[1] * p[2] > 0
    THEN <<2 * p[1] * r[1], p[1] * r[2] + r[1] * p[2]>>
    ELSE <<0, 1>>

NoRecord ==
    [file_precision |-> 0, file_recall |-> 0, f1 |-> 0, files_touched |-> {},
     ground_truth_files |-> {}, exact_file_match |-> FALSE]

NoLocals ==
    [precision |-> <<0, 1>>, recall |-> <<0, 1>>, f1 |-> <<0, 1>>,
     agent_files |-> {}, gt_files |-> {}]

NoOutcome == [status |-> "none", record |-> NoRecord, locals |-> NoLocals]

DiffFailed(type) == [status |-> type, record |-> NoRecord, locals |-> NoLocals]

(* Lines 122-151: the infrastructure filter, the arithmetic and the        *)
(* record. locals keeps precision, recall and f1 before rounding, and the  *)
(* two file sets before the filter.                                        *)
Score(agent_files, gt_files) ==
    LET agent == DropInfra(agent_files)
        gt == DropInfra(gt_files)
        precision == Precision(agent, gt)
        recall == Recall(agent, gt)
        f1 == F1(precision, recall)
    IN  [status |-> "ok",
         record |-> [file_precision |-> Round4(precision),
                     file_recall |-> Round4(recall),
                     f1 |-> Round4(f1),
                     files_touched |-> agent,
                     ground_truth_files |-> gt,
                     exact_file_match |-> agent = gt],
         locals |-> [precision |-> precision, recall |-> recall, f1 |-> f1,
                     agent_files |-> agent_files, gt_files |-> gt_files]]

(* A base that is the ground-truth commit itself, not its parent.          *)
DiffBaseNoCaret(cs, args) ==
    IF Given(args.baseline) THEN args.baseline ELSE args.ground_truth_commit

(* Lines 92-106: the explicit baseline if given, else the parent of the    *)
(* ground-truth commit (NoParent when rev-parse fails on a root commit).   *)
DiffBase(cs, args) ==
    IF Given(args.baseline) THEN args.baseline ELSE cs[args.ground_truth_commit].parent

(* Lines 81-151. The two git diff calls of lines 110 and 113 run outside   *)
(* any try block: their failure leaves score_diff as CalledProcessError.   *)
ScoreDiffOutcome(cs, idx, w, args) ==
    IF ~Resolves(cs, args.ground_truth_commit) THEN DiffFailed("DiffScorerError")
    ELSE LET base == DiffBase(cs, args)
         IN  IF base = NoParent THEN DiffFailed("DiffScorerError")
             ELSE IF ~Resolves(cs, base) THEN DiffFailed("CalledProcessError")
             ELSE IF Given(args.snapshot)
                  THEN IF ~Resolves(cs, args.snapshot) THEN DiffFailed("CalledProcessError")
                       ELSE Score(FilesChangedBetween(cs, base, args.snapshot),
                                  FilesChangedInCommit(cs, args.ground_truth_commit))
                  ELSE Score(FilesChangedInWorkTree(cs, idx, w, base),
                             FilesChangedInCommit(cs, args.ground_truth_commit))

----------------------------------------------------------------------------
(* The workspaces score_diff is run on.                                    *)

MaxTruthFiles == 2
MaxAgentFiles == 3

AtMost(n) == {s \in SUBSET Paths : Cardinality(s) <= n}

RootTree == Write(EmptyTree, {PathA, PathClaude}, 1)

ParentTree == Write(RootTree, {PathB, PathDotfile}, 1)

(* What tool setup writes before the baseline snapshot.                    *)
SetupChanges == {{}, {PathBobbin}, {PathBobbin, PathB}}

(* What happens to the working tree after the agent's snapshot: nothing, a *)
(* file written, a tracked file deleted.                                   *)
PostChanges ==
    {[write |-> {}, delete |-> {}],
     [write |-> {PathNested}, delete |-> {}],
     [write |-> {PathA}, delete |-> {}],
     [write |-> {}, delete |-> {PathB}]}

(* What the agent does to PathB besides writing files: nothing, delete    *)
(* it, or rename it to PathNested.                                         *)
Removals == {"none", "delete", "rename"}

(* The agent's commit.                                                     *)
AgentTree(baselineTree, agent, removal) ==
    LET written == Write(baselineTree, agent, 3)
    IN  CASE removal = "delete" -> [written EXCEPT ![PathB] = 0]
          [] removal = "rename" ->
                 [written EXCEPT ![PathNested] = baselineTree[PathB], ![PathB] = 0]
          [] OTHER -> written

(* The history root <- parent <- ground truth, with the baseline snapshot  *)
(* taken after tool setup and the agent's snapshot on top of it. M is the  *)
(* ground truth merged into the parent without fast-forward: its first     *)
(* parent is P, its tree is the ground truth's.                            *)
Workspace(truth, setup, agent, removal) ==
    LET baselineTree == Write(ParentTree, setup, 2)
    IN  [R |-> [parent |-> NoParent, others |-> {}, tree |-> RootTree],
         P |-> [parent |-> "R", others |-> {}, tree |-> ParentTree],
         G |-> [parent |-> "P", others |-> {}, tree |-> Write(ParentTree, truth, 5)],
         M |-> [parent |-> "P", others |-> {"G"}, tree |-> Write(ParentTree, truth, 5)],
         B |-> [parent |-> "P", others |-> {}, tree |-> baselineTree],
         S |-> [parent |-> "B", others |-> {}, tree |-> AgentTree(baselineTree, agent, removal)]]

BadRef == "deadbeef"

Args(gt, snapshot, baseline) ==
    [ground_truth_commit |-> gt, snapshot |-> snapshot, baseline |-> baseline]

NoArgs == Args(NoneRef, NoneRef, NoneRef)

ArgChoices ==
    {Args("G", s, b) : s \in {NoneRef, "S"}, b \in {NoneRef, "B"}}
        \cup {Args("G", "S", ""), Args("G", "", "B"),
              Args(BadRef, NoneRef, NoneRef), Args("R", NoneRef, NoneRef), Args("R", "S", "B"),
              Args("M", "S", NoneRef), Args("M", "S", "B"),
              Args("G", "S", BadRef), Args("G", BadRef, "B"), Args("G", NoneRef, BadRef)}

DiffIdle ==
    /\ dpc = "idle"
    /\ commits = Workspace({}, {}, {}, "none")
    /\ index = ParentTree
    /\ wt = ParentTree
    /\ dargs = NoArgs
    /\ dres = NoOutcome

DiffInit ==
    /\ dpc = "ready"
    /\ \E truth \in AtMost(MaxTruthFiles), setup \in SetupChanges,
          agent \in AtMost(MaxAgentFiles), removal \in Removals, post \in PostChanges :
          /\ commits = Workspace(truth, setup, agent, removal)
          /\ index = commits["S"].tree
          /\ wt = Write(Write(commits["S"].tree, post.write, 4), post.delete, 0)
    /\ dargs = NoArgs
    /\ dres = NoOutcome

ScoreDiff ==
    /\ dpc = "ready"
    /\ \E args \in ArgChoices :
          /\ dargs' = args
          /\ dres' = ScoreDiffOutcome(commits, index, wt, args)
    /\ dpc' = "done"
    /\ UNCHANGED <<commits, index, wt>>
    /\ UNCHANGED outsideDiff

DiffNext == ScoreDiff

----------------------------------------------------------------------------
(* The test scorer: the output parsers. Output is a sequence of tokens: a  *)
(* run of digits, a word, a punctuation mark or one whitespace character.  *)

(* int() of the digit runs that occur.                                     *)
Digits == ("0" :> 0) @@ ("1" :> 1) @@ ("2" :> 2) @@ ("3" :> 3) @@ ("5" :> 5) @@ ("42" :> 42)

(* \s*: the position after the whitespace that starts at p.                *)
RECURSIVE SkipWs(_, _)
SkipWs(out, p) ==
    IF p <= Len(out) /\ out[p] \in {" ", "\n"} THEN SkipWs(out, p + 1) ELSE p

(* (\d+) word at p, after ,?\s* when lead: the position after it, 0 when   *)
(* it does not match. The count is the token three places before the end.  *)
CountEnd(out, p, words, lead) ==
    LET q == IF lead THEN SkipWs(out, IF p <= Len(out) /\ out[p] = "," THEN p + 1 ELSE p)
             ELSE p
    IN  IF /\ q + 2 <= Len(out)
           /\ out[q] \in DOMAIN Digits
           /\ out[q + 1] = " "
           /\ out[q + 2] \in words
        THEN q + 3 ELSE 0

(* Lines 26-29: the four optional groups of the pytest pattern.            *)
PytestGroups == <<{"passed"}, {"failed"}, {"error", "errors", "errored"}, {"skipped"}>>

(* Lines 25-31 matched at p from group k on: the groups (-1 for one that   *)
(* did not take part) or <<>> when there is no match. A group is tried     *)
(* first, and left out when the rest does not match with it. Line 30, the  *)
(* tail \s+in\s+[\d.]+s, is mandatory; the durations that occur are 1.5s   *)
(* and 0.05s.                                                              *)
RECURSIVE PytestMatch(_, _, _, _)
PytestMatch(out, k, p, groups) ==
    IF k > Len(PytestGroups)
    THEN LET a == SkipWs(out, p)
             b == SkipWs(out, a + 1)
         IN  IF /\ a > p /\ a <= Len(out) /\ out[a] = "in"
                /\ b > a + 1 /\ b <= Len(out) /\ out[b] \in {"1.5s", "0.05s"}
             THEN groups ELSE <<>>
    ELSE LET e == CountEnd(out, p, PytestGroups[k], k > 1)
             with == IF e = 0 THEN <<>>
                     ELSE PytestMatch(out, k + 1, e, Append(groups, Digits[out[e - 3]]))
         IN  IF with # <<>> THEN with ELSE PytestMatch(out, k + 1, p, Append(groups, -1))

(* A Python dict is a function; {} is the one with the empty domain.       *)
EmptyDict == [k \in {} |-> 0]

Get(dict, key, default) == IF key \in DOMAIN dict THEN dict[key] ELSE default

(* _parse_pytest_output: pattern.search takes the leftmost match.          *)
ParsePytestOutput(out) ==
    LET starts == {i \in 1..(Len(out) + 1) : PytestMatch(out, 1, i, <<>>) # <<>>}
    IN  IF starts = {} THEN EmptyDict
        ELSE LET g == PytestMatch(out, 1, CHOOSE i \in starts : \A j \in starts : i <= j, <<>>)
                 n == [k \in 1..4 |-> IF g[k] = -1 THEN 0 ELSE g[k]]
             IN  [framework |-> "pytest", passed |-> n[1], failed |-> n[2] + n[3],
                  skipped |-> n[4], total |-> n[1] + n[2] + n[3] + n[4]]

(* Lines 57-62 matched at p: the end of the match and the three counts,    *)
(* end = 0 when there is no match.                                         *)
CargoAt(out, p) ==
    LET a == SkipWs(out, p + 3)
        e1 == CountEnd(out, a, {"passed"}, FALSE)
        b == SkipWs(out, e1 + 1)
        e2 == CountEnd(out, b, {"failed"}, FALSE)
        c == SkipWs(out, e2 + 1)
        e3 == CountEnd(out, c, {"ignored"}, FALSE)
    IN  IF /\ p + 2 <= Len(out)
           /\ out[p] = "test result:" /\ out[p + 1] = " " /\ out[p + 2] \in {"ok.", "FAILED."}
           /\ a > p + 3
           /\ e1 # 0 /\ e1 <= Len(out) /\ out[e1] = ";" /\ b > e1 + 1
           /\ e2 # 0 /\ e2 <= Len(out) /\ out[e2] = ";" /\ c > e2 + 1
           /\ e3 # 0 /\ e3 <= Len(out) /\ out[e3] = ";"
        THEN [end |-> e3 + 1, passed |-> Digits[out[e1 - 3]],
              failed |-> Digits[out[e2 - 3]], ignored |-> Digits[out[e3 - 3]]]
        ELSE [end |-> 0, passed |-> 0, failed |-> 0, ignored |-> 0]

(* Lines 65-71: finditer, the counts of all the result lines added up.     *)
RECURSIVE CargoScan(_, _, _)
CargoScan(out, p, acc) ==
    IF p > Len(out) THEN acc
    ELSE LET m == CargoAt(out, p)
         IN  IF m.end = 0 THEN CargoScan(out, p + 1, acc)
             ELSE CargoScan(out, m.end,
                            [found |-> TRUE, passed |-> acc.passed + m.passed,
                             failed |-> acc.failed + m.failed,
                             ignored |-> acc.ignored + m.ignored])

(* _parse_cargo_test_output *)
ParseCargoTestOutput(out) ==
    LET t == CargoScan(out, 1, [found |-> FALSE, passed |-> 0, failed |-> 0, ignored |-> 0])
    IN  IF ~t.found THEN EmptyDict
        ELSE [framework |-> "cargo-test", passed |-> t.passed, failed |-> t.failed,
              skipped |-> t.ignored, total |-> t.passed + t.failed + t.ignored]

(* A chain that asks the cargo parser first.                               *)
ParseOutputCargoFirst(out) ==
    IF ParseCargoTestOutput(out) # EmptyDict THEN ParseCargoTestOutput(out)
    ELSE ParsePytestOutput(out)

(* _parse_output: the first parser with a non-empty result.                *)
ParseOutput(out) ==
    IF ParsePytestOutput(out) # EmptyDict THEN ParsePytestOutput(out)
    ELSE ParseCargoTestOutput(out)

----------------------------------------------------------------------------
(* The test scorer: run_tests.                                             *)

(* A byte that is not valid UTF-8, and what errors="replace" makes of it.  *)
BadByte == "\\xff"

(* Nothing captured: the None of TimeoutExpired.stdout.                    *)
NoCapture == <<"None">>

(* Lines 132-137 with nothing kept of the capture.                         *)
CapturedTextDropped(captured) == <<>>

(* Lines 132-137: exc.stdout or "", decoded with errors="replace".         *)
CapturedText(captured) ==
    IF captured = NoCapture THEN <<>>
    ELSE [i \in 1..Len(captured) |->
             IF captured[i] = BadByte THEN "U+FFFD" ELSE captured[i]]

(* A sentinel for every unparsable run.                                    *)
FailuresAlwaysSentinel(parsed, exit_code) ==
    IF parsed # EmptyDict THEN Get(parsed, "failed", 0) ELSE -1

(* Line 143 *)
Failures(parsed, exit_code) ==
    IF parsed # EmptyDict THEN Get(parsed, "failed", 0)
    ELSE IF exit_code = 0 THEN 0 ELSE -1

NoTestResult == [status |-> "none"]

(* Lines 118-154. Without a timeout subprocess.run decodes the output      *)
(* strictly (text=True): a byte that is not UTF-8 ends run_tests with      *)
(* UnicodeDecodeError.                                                     *)
RunTestsOutcome(proc) ==
    LET timed_out == proc.timeout
        exit_code == IF timed_out THEN -1 ELSE proc.returncode
        output == IF timed_out THEN CapturedText(proc.stdout) \o CapturedText(proc.stderr)
                  ELSE proc.stdout \o proc.stderr
        parsed == ParseOutput(output)
    IN  IF ~timed_out /\ \E i \in 1..Len(output) : output[i] = BadByte
        THEN [status |-> "UnicodeDecodeError"]
        ELSE [status |-> "ok",
              passed |-> exit_code = 0,
              total |-> Get(parsed, "total", 0),
              failures |-> Failures(parsed, exit_code),
              output |-> output,
              exit_code |-> exit_code,
              timed_out |-> timed_out,
              parsed |-> parsed]

(* What test commands print.                                               *)
Segments ==
    {<<"all", " ", "good", "\n">>,
     <<"5", " ", "passed", " ", "in", " ", "1.5s", "\n">>,
     <<"1", " ", "failed", ",", " ", "5", " ", "passed", " ", "in", " ", "1.5s", "\n">>,
     <<"5", " ", "passed", ",", " ", "2", " ", "failed", ",", " ", "1", " ", "error", ",",
       " ", "3", " ", "skipped", " ", "in", " ", "1.5s", "\n">>,
     <<"test result:", " ", "ok.", " ", "42", " ", "passed", ";", " ", "0", " ", "failed", ";",
       " ", "1", " ", "ignored", ";", " ", "0", " ", "measured", "\n">>,
     <<"test result:", " ", "FAILED.", " ", "1", " ", "passed", ";", " ", "2", " ", "failed", ";",
       " ", "0", " ", "ignored", ";", " ", "finished", " ", "in", " ", "0.05s", "\n">>,
     <<"Ran", " ", "3", " ", "tests", " ", "in", " ", "0.05s", "\n">>,
     <<BadByte>>}

StdoutChoices == {<<>>} \cup Segments \cup {a \o b : a \in Segments, b \in Segments}

StderrChoices == {<<>>, <<"warning", "\n">>, <<BadByte>>}

(* Exit codes of the shell; -1 is Python's code for death by signal 1.     *)
ReturnCodes == {0, 1, 101, -1}

Procs ==
    [timeout : {FALSE}, returncode : ReturnCodes, stdout : StdoutChoices,
     stderr : StderrChoices]
      \cup [timeout : {TRUE}, returncode : {0},
            stdout : {NoCapture} \cup StdoutChoices, stderr : {NoCapture} \cup StderrChoices]

TestIdle ==
    /\ tpc = "idle"
    /\ tproc = [timeout |-> FALSE, returncode |-> 0, stdout |-> <<>>, stderr |-> <<>>]
    /\ tres = NoTestResult

TestInit ==
    /\ tpc = "ready"
    /\ tproc \in Procs
    /\ tres = NoTestResult

RunTests ==
    /\ tpc = "ready"
    /\ tres' = RunTestsOutcome(tproc)
    /\ tpc' = "done"
    /\ UNCHANGED tproc
    /\ UNCHANGED outsideTest

----------------------------------------------------------------------------
(* The workspace manager. A commit is <<parent, tree, author>> and is its  *)
(* own hash: two commits are the same exactly when they agree on all       *)
(* three. The parent of a root commit is <<>>.                             *)

WsPaths == {"a", "n", "x.log"}

(* The paths the repository's .gitignore matches.                          *)
Ignored == {"x.log"}

(* The upstream history: root <- parent <- target.                         *)
RootCommit == <<<<>>, [p \in WsPaths |-> IF p = "a" THEN 1 ELSE 0], "upstream">>

ParentCommit == <<RootCommit, [p \in WsPaths |-> IF p = "a" THEN 2 ELSE 0], "upstream">>

TargetCommit == <<ParentCommit, [p \in WsPaths |-> IF p = "a" THEN 3 ELSE 0], "upstream">>

(* A hash no commit has.                                                   *)
UnknownCommit == <<<<>>, [p \in WsPaths |-> 0], "nobody">>

(* user.name / user.email as git finds them; "" when none is configured    *)
(* and none can be detected.                                               *)
Identities == {"", "alice", "bob"}

(* How the git commands of one operation end: those numbered in at end     *)
(* the way kind says, the others succeed.                                  *)
NoFault == [at |-> {}, kind |-> "none"]

Faults(n) ==
    {NoFault} \cup [at : {{c} : c \in 1..n} \cup (IF n >= 2 THEN {{1, 2}} ELSE {}),
                    kind : {"CalledProcessError", "TimeoutExpired"}]

(* A working copy as git clone leaves it.                                  *)
FreshClone(repo) ==
    [repo EXCEPT !.cloned = TRUE, !.head = TargetCommit,
                 !.commits = {RootCommit, ParentCommit, TargetCommit},
                 !.index = TargetCommit[2], !.wt = TargetCommit[2], !.dirtySub = FALSE]

Ended(status, value, repo) == [status |-> status, value |-> value, repo |-> repo]

(* A clone_repo that does not delete the mirror whose fetch failed.        *)
CloneRepoKeepsMirror(repo, fault) ==
    LET fetched == repo.mirror # "absent" /\ 1 \notin fault.at
        made == [repo EXCEPT !.mirror = IF repo.mirror # "absent" THEN @ ELSE "cloned"]
    IN  IF ~fetched /\ 2 \in fault.at THEN Ended(fault.kind, <<>>, repo)
        ELSE IF 3 \in fault.at THEN Ended(fault.kind, <<>>, [made EXCEPT !.cloned = FALSE])
        ELSE IF 4 \in fault.at THEN Ended(fault.kind, <<>>, FreshClone(made))
        ELSE Ended("ok", "dest", FreshClone(made))

(* Lines 50-111, _ensure_cached_clone and clone_repo. The commands: 1 git  *)
(* remote update, 2 git clone --mirror, 3 git clone, 4 git remote set-url. *)
(* The mirror is "present" as found in the cache, "cloned" when this call  *)
(* made it, "absent" after rmtree or a clone that failed and cleaned up,   *)
(* "partial" when the clone was killed at its time limit.                  *)
CloneRepoOutcome(repo, fault) ==
    LET hit == repo.mirror # "absent"
        fetched == hit /\ 1 \notin fault.at
        made == [repo EXCEPT !.mirror = IF fetched THEN @ ELSE "cloned"]
    IN  IF ~fetched /\ 2 \in fault.at
        THEN Ended(fault.kind, <<>>,
                   [repo EXCEPT !.mirror = IF fault.kind = "TimeoutExpired"
                                           THEN "partial" ELSE "absent"])
        ELSE IF 3 \in fault.at THEN Ended(fault.kind, <<>>, [made EXCEPT !.cloned = FALSE])
        ELSE IF 4 \in fault.at THEN Ended(fault.kind, <<>>, FreshClone(made))
        ELSE Ended("ok", "dest", FreshClone(made))

(* A checkout of the target itself.                                        *)
CheckoutTargetOutcome(repo, commit, fault) ==
    IF commit \notin repo.commits
    THEN Ended("WorkspaceError", <<>>, repo)
    ELSE Ended("ok", commit, [repo EXCEPT !.head = commit])

(* Lines 114-141, checkout_parent. The commands: 1 git rev-parse commit^,  *)
(* 2 git checkout --force, which overwrites every tracked file and leaves  *)
(* the untracked ones.                                                     *)
CheckoutParentOutcome(repo, commit, fault) ==
    IF 1 \in fault.at /\ fault.kind = "TimeoutExpired"
    THEN Ended("TimeoutExpired", <<>>, repo)
    ELSE IF 1 \in fault.at \/ commit \notin repo.commits \/ commit[1] = <<>>
    THEN Ended("WorkspaceError", <<>>, repo)
    ELSE IF 2 \in fault.at
    THEN Ended(fault.kind, <<>>, repo)
    ELSE LET parent == commit[1]
         IN  Ended("ok", parent,
                   [repo EXCEPT !.head = parent,
                                !.index = parent[2],
                                !.wt = [p \in WsPaths |->
                                           IF repo.index[p] # 0 \/ parent[2][p] # 0
                                           THEN parent[2][p] ELSE repo.wt[p]]])

(* git add -A: the index takes every file on disk but the untracked files  *)
(* that .gitignore matches.                                                *)
Stage(repo) ==
    [p \in WsPaths |-> IF p \in Ignored /\ repo.index[p] = 0 THEN 0 ELSE repo.wt[p]]

(* Lines 167-195, snapshot. The commands: 1 git add -A, 2 git status       *)
(* --porcelain, then either 3 git rev-parse HEAD, or 3 git commit          *)
(* --allow-empty and 4 git rev-parse HEAD. git status lists what is staged *)
(* and a nested repository with uncommitted changes; git commit takes the  *)
(* author from the ambient identity and fails without one.                 *)
SnapshotOutcome(repo, fault) ==
    LET staged == [repo EXCEPT !.index = Stage(repo)]
        new == <<repo.head, staged.index, repo.identity>>
        committed == [staged EXCEPT !.head = new, !.commits = @ \cup {new}]
    IN  IF 1 \in fault.at THEN Ended(fault.kind, <<>>, repo)
        ELSE IF 2 \in fault.at THEN Ended(fault.kind, <<>>, staged)
        ELSE IF staged.index = repo.head[2] /\ ~repo.dirtySub
        THEN IF 3 \in fault.at THEN Ended(fault.kind, <<>>, staged)
             ELSE Ended("ok", repo.head, staged)
        ELSE IF 3 \in fault.at THEN Ended(fault.kind, <<>>, staged)
        ELSE IF repo.identity = "" THEN Ended("CalledProcessError", <<>>, staged)
        ELSE IF 4 \in fault.at THEN Ended(fault.kind, <<>>, committed)
        ELSE Ended("ok", new, committed)

(* Lines 198-205, diff_snapshot: git diff base head, here the two contents *)
(* of every path that differs.                                             *)
DiffSnapshotOutcome(repo, refs, fault) ==
    IF 1 \in fault.at THEN Ended(fault.kind, <<>>, repo)
    ELSE IF refs[1] \notin repo.commits \/ refs[2] \notin repo.commits
    THEN Ended("CalledProcessError", <<>>, repo)
    ELSE Ended("ok",
               [p \in {q \in WsPaths : refs[1][2][q] # refs[2][2][q]} |->
                   <<refs[1][2][p], refs[2][2][p]>>],
               repo)

(* The number of workspace operations of one attempt.                      *)
MaxOps == 3

NoRepo ==
    [cloned |-> FALSE, mirror |-> "absent", head |-> TargetCommit, commits |-> {},
     index |-> TargetCommit[2], wt |-> TargetCommit[2], identity |-> "", dirtySub |-> FALSE]

WsIdle ==
    /\ wpc = "idle"
    /\ wrepo = NoRepo
    /\ wlog = <<>>

(* An attempt starts without a working copy, or with one just cloned.      *)
WsInit ==
    /\ wpc = "run"
    /\ \E mirror \in {"absent", "present"}, identity \in Identities, cloned \in BOOLEAN :
          LET repo == [NoRepo EXCEPT !.mirror = mirror, !.identity = identity]
          IN  wrepo = IF cloned THEN FreshClone([repo EXCEPT !.mirror = "present"]) ELSE repo
    /\ wlog = <<>>

(* One more operation with its outcome; an exception ends the attempt.     *)
Logged(op, arg, fault, out) ==
    /\ wpc = "run"
    /\ Len(wlog) < MaxOps
    /\ wlog # <<>> => wlog[Len(wlog)].status = "ok"
    /\ wlog' = Append(wlog, [op |-> op, arg |-> arg, fault |-> fault, status |-> out.status,
                             value |-> out.value, before |-> wrepo])
    /\ wrepo' = out.repo
    /\ UNCHANGED wpc
    /\ UNCHANGED outsideWs

CloneRepo ==
    /\ wrepo.mirror \in {"absent", "present", "cloned"}
    /\ \E fault \in Faults(4) : Logged("clone_repo", <<>>, fault, CloneRepoOutcome(wrepo, fault))

CheckoutParent ==
    /\ wrepo.cloned
    /\ \E commit \in wrepo.commits \cup {UnknownCommit}, fault \in Faults(2) :
          Logged("checkout_parent", commit, fault, CheckoutParentOutcome(wrepo, commit, fault))

Snapshot ==
    /\ wrepo.cloned
    /\ \E fault \in Faults(4) : Logged("snapshot", <<>>, fault, SnapshotOutcome(wrepo, fault))

DiffSnapshot ==
    /\ wrepo.cloned
    /\ \E base \in {ParentCommit, UnknownCommit}, fault \in Faults(1) :
          Logged("diff_snapshot", <<base, wrepo.head>>, fault,
                 DiffSnapshotOutcome(wrepo, <<base, wrepo.head>>, fault))

(* What the agent or the test command does to the working copy: it writes  *)
(* or deletes a file, or leaves uncommitted changes in a nested            *)
(* repository.                                                             *)
Edit ==
    /\ wrepo.cloned
    /\ \/ \E p \in WsPaths, content \in {0, 7} :
             /\ wrepo.wt[p] # content
             /\ Logged("edit", <<p, content>>, NoFault,
                       Ended("ok", <<>>, [wrepo EXCEPT !.wt[p] = content]))
       \/ /\ ~wrepo.dirtySub
          /\ Logged("edit", <<"sub">>, NoFault,
                    Ended("ok", <<>>, [wrepo EXCEPT !.dirtySub = TRUE]))

WsNext == CloneRepo \/ CheckoutParent \/ Snapshot \/ DiffSnapshot \/ Edit

----------------------------------------------------------------------------
(* The other functions of the harness. Each is run on its own: hpc names   *)
(* the function and the position in it, hst holds its arguments (in) and   *)
(* what it has produced (out, empty until it ends).                        *)

HarnessIdle ==
    /\ hpc = "idle"
    /\ hst = <<>>

(* Nothing but the harness function under study runs.                      *)
CoreIdle == JudgeIdle /\ DiffIdle /\ TestIdle /\ WsIdle

(* set(a_list) *)
ToSet(list) == {list[i] : i \in 1..Len(list)}

(* The length of the lists handed to the scorers.                          *)
MaxListLen == 3

Lists(S) == UNION {[1..n -> S] : n \in 0..MaxListLen}

(* An injection scorer that counts the list entries, duplicates included.  *)
ScoreInjectionNoDedup(injected_files, files_touched) ==
    LET overlap == ToSet(injected_files) \cap ToSet(files_touched)
        precision == IF injected_files = <<>> THEN <<0, 1>>
                     ELSE <<Cardinality(overlap), Len(injected_files)>>
        recall == IF files_touched = <<>> THEN <<0, 1>>
                  ELSE <<Cardinality(overlap), Len(files_touched)>>
    IN  [injection_precision |-> Round4(precision),
         injection_recall |-> Round4(recall),
         injection_f1 |-> Round4(F1(precision, recall)),
         injected_and_touched |-> overlap,
         injected_not_touched |-> ToSet(injected_files) \ ToSet(files_touched),
         touched_not_injected |-> ToSet(files_touched) \ ToSet(injected_files)]

(* injection_scorer.py lines 46-72. Fractions are kept exact as            *)
(* <<numerator, denominator>> until round(x, 4).                           *)
ScoreInjectionUsage(injected_files, files_touched) ==
    LET injected == ToSet(injected_files)
        touched == ToSet(files_touched)
        overlap == injected \cap touched
        precision == IF injected = {} THEN <<0, 1>>
                     ELSE <<Cardinality(overlap), Cardinality(injected)>>
        recall == IF touched = {} THEN <<0, 1>>
                  ELSE <<Cardinality(overlap), Cardinality(touched)>>
        sum == precision[1] * recall[2] + recall[1] * precision[2]
        f1 == IF sum > 0 THEN <<2 * precision[1] * recall[1], sum>> ELSE <<0, 1>>
    IN  [injection_precision |-> Round4(precision),
         injection_recall |-> Round4(recall),
         injection_f1 |-> Round4(f1),
         injected_and_touched |-> overlap,
         injected_not_touched |-> injected \ touched,
         touched_not_injected |-> touched \ injected]

InjectionInit ==
    /\ hpc = "score_injection_usage"
    /\ \E injected_files \in Lists({PathA, PathB, PathBobbin}),
          files_touched \in Lists({PathA, PathB, PathBobbin}) :
          hst = [in |-> <<injected_files, files_touched>>, out |-> <<>>]

InjectionCall ==
    /\ hpc = "score_injection_usage"
    /\ hst.out = <<>>
    /\ hst' = [hst EXCEPT !.out = <<ScoreInjectionUsage(hst.in[1], hst.in[2])>>]
    /\ UNCHANGED hpc
    /\ UNCHANGED outsideHarness

(* A Python value as JSON gives it: its type, and the content under the    *)
(* field of that type (d for a dict, n for a number or a bool, s for a     *)
(* string). Numbers are in ten-thousandths.                                *)
Py(type, d, n, s) == [type |-> type, d |-> d, n |-> n, s |-> s]

(* bool(value) *)
Truthy(v) ==
    CASE v.type = "dict" -> v.d # EmptyDict
      [] v.type = "str" -> v.s # ""
      [] v.type = "NoneType" -> FALSE
      [] OTHER -> v.n # 0

(* aggregator.py lines 73-80, _avg: the mean <<sum, number>> of the        *)
(* numbers found under r[k1][k2], 0.0 when there is none.                  *)
Avg(results, k1, k2) ==
    LET empty == Py("dict", EmptyDict, 0, "")
        Under(obj, k) == IF obj.type = "dict" THEN Get(obj.d, k, empty) ELSE empty
        At(i) == Under(Under(results[i], k1), k2)
        vals == {i \in 1..Len(results) : At(i).type \in {"int", "float", "bool"}}
        total[i \in 0..Len(results)] ==
            IF i = 0 THEN 0 ELSE total[i - 1] + (IF i \in vals THEN At(i).n ELSE 0)
    IN  IF vals = {} THEN <<0, 1>> ELSE <<total[Len(results)], Cardinality(vals)>>

(* aggregator.py lines 51-112. A .get on a value that is no dict is an     *)
(* AttributeError, `in` on a number and a dict used as a key are           *)
(* TypeErrors.                                                             *)
AggregateAcrossRuns(results) ==
    LET n == Len(results)
        empty == Py("dict", EmptyDict, 0, "")
        none == Py("NoneType", EmptyDict, 0, "")
        TestResult(r) == Get(r.d, "test_result", empty)
        test_passes ==
            {i \in 1..n : Truthy(Get(TestResult(results[i]).d, "passed", none))}
        Jr(i) == Get(results[i].d, "judge_result", none)
        judged == {i \in 1..n : Truthy(Jr(i)) /\ "overall_winner" \in DOMAIN Jr(i).d}
        Wins(w) == Cardinality({i \in judged : Jr(i).d["overall_winner"] = Py("str", EmptyDict, 0, w)})
        stats == [k \in {"count", "test_pass_rate", "avg_file_precision", "avg_file_recall",
                         "avg_f1", "avg_duration_seconds"} |->
                     CASE k = "count" -> <<n, 1>>
                       [] k = "test_pass_rate" -> <<Cardinality(test_passes), n>>
                       [] k = "avg_file_precision" -> Avg(results, "diff_result", "file_precision")
                       [] k = "avg_file_recall" -> Avg(results, "diff_result", "file_recall")
                       [] k = "avg_f1" -> Avg(results, "diff_result", "f1")
                       [] OTHER -> Avg(results, "agent_result", "duration_seconds")]
        summary == [count |-> Cardinality(judged),
                    wins |-> [w \in {"a", "b", "tie"} |-> Wins(w)]]
    IN  IF results = <<>>
        THEN [status |-> "ok", judge_summary |-> <<>>,
              stats |-> [k \in DOMAIN stats |-> <<0, 1>>]]
        ELSE IF \E i \in 1..n : results[i].type # "dict" \/ TestResult(results[i]).type # "dict"
        THEN [status |-> "AttributeError", judge_summary |-> <<>>, stats |-> EmptyDict]
        ELSE IF \E i \in 1..n :
                   \/ Truthy(Jr(i)) /\ Jr(i).type \notin {"dict", "str"}
                   \/ i \in judged /\ Jr(i).d["overall_winner"].type = "dict"
        THEN [status |-> "TypeError", judge_summary |-> <<>>, stats |-> EmptyDict]
        ELSE [status |-> "ok", stats |-> stats,
              judge_summary |-> IF judged # {} THEN <<summary>> ELSE <<>>]

(* The number of records handed to aggregate_across_runs.                  *)
MaxRuns == 2

(* Result records: the fields of a saved result that the aggregator reads, *)
(* each present, absent or null.                                           *)
RunRecords ==
    LET Dict(d) == Py("dict", d, 0, "")
        None == Py("NoneType", EmptyDict, 0, "")
        tests == {EmptyDict, "test_result" :> Dict(EmptyDict), "test_result" :> None,
                  "test_result" :> Dict("passed" :> Py("bool", EmptyDict, 1, "")),
                  "test_result" :> Dict("passed" :> Py("bool", EmptyDict, 0, ""))}
        diffs == {EmptyDict, "diff_result" :> None,
                  "diff_result" :> Dict("file_precision" :> Py("float", EmptyDict, 5000, "")
                                        @@ "file_recall" :> Py("float", EmptyDict, 10000, "")
                                        @@ "f1" :> Py("float", EmptyDict, 6667, ""))}
        agents == {EmptyDict,
                   "agent_result" :> Dict("duration_seconds" :> Py("float", EmptyDict, 500000, ""))}
        judges == {EmptyDict, "judge_result" :> None,
                   "judge_result" :> Dict("overall_winner" :> Py("str", EmptyDict, 0, "b"))}
    IN  {Dict(t @@ d @@ a @@ j) : t \in tests, d \in diffs, a \in agents, j \in judges}

AggregateInit ==
    /\ hpc = "aggregate_across_runs"
    /\ \E results \in UNION {[1..n -> RunRecords] : n \in 0..MaxRuns} :
          hst = [in |-> results, out |-> <<>>]

AggregateCall ==
    /\ hpc = "aggregate_across_runs"
    /\ hst.out = <<>>
    /\ hst' = [hst EXCEPT !.out = <<AggregateAcrossRuns(hst.in)>>]
    /\ UNCHANGED hpc
    /\ UNCHANGED outsideHarness

(* The judge command, cli.py lines 1157-1247. The ways judge_pairwise      *)
(* ends: "none" for a judgement, else the type of the exception that one   *)
(* of its two calls raised.                                                *)
JudgeEnds == {JudgeSingleOrdering(r).err.type : r \in Responses} \cup {"LLMJudgeError"}

(* Lines 1179-1203: the pairs of one task. nb and wb are the agent diff of *)
(* the best no-bobbin and with-bobbin attempt ("none" when there is no     *)
(* attempt), gt is the ground-truth diff.                                  *)
PairConfigs(task, pairs) ==
    LET sample == IF task.nb # "none" THEN task.nb ELSE task.wb
        Pair(label, a, b) == [task_id |-> task.id, label |-> label, diff_a |-> a, diff_b |-> b]
    IN  IF task.nb = "none" /\ task.wb = "none" THEN <<>>
        ELSE (IF pairs \in {"all", "ai-vs-ai"} /\ task.nb # "none" /\ task.wb # "none"
              THEN <<Pair("ai-vs-ai+bobbin", task.nb, task.wb)>> ELSE <<>>)
             \o (IF pairs \in {"all", "human-vs-ai"} /\ task.nb # "none" /\ task.gt # ""
                 THEN <<Pair("human-vs-ai", task.gt, task.nb)>> ELSE <<>>)
             \o (IF pairs \in {"all", "human-vs-bobbin"} /\ task.wb # "none" /\ task.gt # ""
                 THEN <<Pair("human-vs-ai+bobbin", task.gt, task.wb)>> ELSE <<>>)

(* Two tasks with stored results; todo is what the two loops still have to *)
(* visit, seen what the inner loop has visited and how each visit ended.   *)
JudgeCmdInit ==
    /\ hpc = "judge"
    /\ \E pairs \in {"all", "ai-vs-ai", "human-vs-ai", "human-vs-bobbin"},
          t \in [{1, 2} -> [nb : {"none", "", "diff"}, wb : {"none", "", "diff"},
                           gt : {"", "diff"}]] :
          LET Task(k) == [id |-> k, nb |-> t[k].nb, wb |-> t[k].wb, gt |-> t[k].gt]
              todo == PairConfigs(Task(1), pairs) \o PairConfigs(Task(2), pairs)
          IN  hst = [in |-> todo, todo |-> todo, seen |-> <<>>, all_judgements |-> <<>>,
                     saved |-> <<>>]

(* Lines 1205-1241: one pass of the inner loop.                            *)
JudgePair ==
    /\ hpc = "judge"
    /\ hst.todo # <<>>
    /\ LET pair == Head(hst.todo)
           Visit(end) == [hst EXCEPT !.todo = Tail(@),
                                     !.seen = Append(@, [pair |-> pair, end |-> end])]
       IN  IF pair.diff_a = "" \/ pair.diff_b = ""
           THEN hst' = Visit("skipped") /\ UNCHANGED hpc
           ELSE \E end \in JudgeEnds :
                   /\ hst' = IF end = "none"
                             THEN [Visit(end) EXCEPT !.all_judgements = Append(@, pair)]
                             ELSE Visit(end)
                   /\ hpc' = IF end \in {"none", "LLMJudgeError"} THEN hpc ELSE end
    /\ UNCHANGED outsideHarness

(* Lines 1243-1252: after the loops the judgements are written to          *)
(* judge_results.json, if there is any.                                    *)
SaveJudgements ==
    /\ hpc = "judge"
    /\ hst.todo = <<>>
    /\ hpc' = "judged"
    /\ hst' = [hst EXCEPT !.saved = hst.all_judgements]
    /\ UNCHANGED outsideHarness

(* One attempt, _run_single of cli.py lines 355-447, on the working copy   *)
(* of the workspace manager. in holds what the environment does: how the   *)
(* git commands of the setup and the test command at the parent state end, *)
(* how the bobbin setup ends, and which of the test command, the bobbin    *)
(* setup and the agent write a file. trace lists the calls made so far.    *)

(* workspace.py lines 144-164: false when the test command exits non-zero  *)
(* or runs into its time limit.                                            *)
VerifyTests(test_end) == test_end = "exit0"

(* A setup that never looks at the verification.                           *)
SetupWorkspaceUnverified(git_end, verify, test_end) ==
    IF git_end # "ok" THEN git_end ELSE "ok"

(* workspace.py lines 245-255: how setup_workspace ends.                   *)
SetupWorkspaceOutcome(git_end, verify, test_end) ==
    IF git_end # "ok" THEN git_end
    ELSE IF verify /\ ~VerifyTests(test_end) THEN "WorkspaceError"
    ELSE "ok"

RunSingleInit ==
    /\ hpc = "run_single:setup"
    /\ \E in \in [approach : {"no-bobbin", "with-bobbin"}, skip_verify : BOOLEAN,
                  git_end : {"ok", "CalledProcessError"},
                  test_end : {"exit0", "exit1", "timeout"},
                  bobbin_end : {"ok", "BobbinSetupError"},
                  writers : SUBSET {"test_command", "setup_bobbin", "run_agent"}] :
          hst = [in |-> in, trace |-> <<>>, status |-> "running",
                 repo |-> [NoRepo EXCEPT !.identity = "alice"],
                 baseline |-> <<>>, snap |-> <<>>, files_touched |-> {}]

(* The working copy after who has written its file, if it writes one.      *)
Written(who, path, content) ==
    IF who \in hst.in.writers THEN [hst.repo EXCEPT !.wt[path] = content] ELSE hst.repo

(* Lines 355-379: setup_workspace, that is clone_repo, checkout_parent and *)
(* verify_tests unless verification is skipped; any exception ends the     *)
(* attempt as a workspace_error.                                           *)
SetupWorkspaceStep ==
    /\ hpc = "run_single:setup"
    /\ LET verify == ~hst.in.skip_verify
           end == SetupWorkspaceOutcome(hst.in.git_end, verify, hst.in.test_end)
           cloned == CheckoutParentOutcome(CloneRepoOutcome(hst.repo, NoFault).repo,
                                           TargetCommit, NoFault).repo
           made == IF hst.in.git_end # "ok" THEN <<"clone_repo">>
                    ELSE <<"clone_repo", "checkout_parent">>
                            \o (IF verify THEN <<"verify_tests">> ELSE <<>>)
       IN  /\ hst' = [hst EXCEPT
                        !.trace = made,
                        !.repo = IF hst.in.git_end # "ok" THEN hst.repo
                                 ELSE IF verify
                                 THEN [cloned EXCEPT !.wt = Written("test_command", "n", 11).wt]
                                 ELSE cloned,
                        !.status = IF end = "ok" THEN "running" ELSE "workspace_error"]
           /\ hpc' = IF end = "ok" THEN "run_single:bobbin" ELSE "run_single:done"
    /\ UNCHANGED outsideHarness

(* Lines 388-409: with bobbin, setup_bobbin and then the baseline          *)
(* snapshot; without, neither.                                             *)
SetupBobbinStep ==
    /\ hpc = "run_single:bobbin"
    /\ IF hst.in.approach # "with-bobbin"
       THEN hst' = hst /\ hpc' = "run_single:agent"
       ELSE IF hst.in.bobbin_end # "ok"
       THEN /\ hst' = [hst EXCEPT !.trace = Append(@, "setup_bobbin"),
                                  !.status = "bobbin_setup_error"]
            /\ hpc' = "run_single:done"
       ELSE LET out == SnapshotOutcome(Written("setup_bobbin", "n", 12), NoFault)
            IN  /\ hst' = [hst EXCEPT !.trace = @ \o <<"setup_bobbin", "snapshot">>,
                                      !.repo = out.repo, !.baseline = <<out.value>>]
                /\ hpc' = "run_single:agent"
    /\ UNCHANGED outsideHarness

(* Lines 411-432: the agent runs in the working copy.                      *)
RunAgentStep ==
    /\ hpc = "run_single:agent"
    /\ hst' = [hst EXCEPT !.trace = Append(@, "run_agent"),
                          !.repo = Written("run_agent", "a", 7)]
    /\ hpc' = "run_single:score"
    /\ UNCHANGED outsideHarness

(* Lines 434-447: the snapshot, the test command, score_diff and the two   *)
(* diffs; the base is the baseline snapshot if there is one, else the      *)
(* parent commit.                                                          *)
ScoreStep ==
    /\ hpc = "run_single:score"
    /\ LET out == SnapshotOutcome(hst.repo, NoFault)
           base == IF hst.baseline # <<>> THEN hst.baseline[1] ELSE ParentCommit
           agent_diff == DiffSnapshotOutcome(out.repo, <<base, out.value>>, NoFault).value
       IN  hst' = [hst EXCEPT
                     !.trace = @ \o <<"snapshot", "run_tests", "score_diff", "diff_snapshot">>,
                     !.repo = [out.repo EXCEPT !.wt = Written("test_command", "n", 13).wt],
                     !.snap = <<out.value>>,
                     !.files_touched = DOMAIN agent_diff,
                     !.status = "completed"]
    /\ hpc' = "run_single:done"
    /\ UNCHANGED outsideHarness

RunSingleNext == SetupWorkspaceStep \/ SetupBobbinStep \/ RunAgentStep \/ ScoreStep

(* Two attempts that call clone_repo for the same slug, workspace.py lines *)
(* 50-111, each at its own position: "check" before line 59, "fetch" and   *)
(* "clone" while the git command of line 62 or 71 runs, "reclone" between  *)
(* the rmtree of line 65 and line 71, "read" while the git clone of line   *)
(* 104 reads the mirror. The mirror directory is "absent", "partial"       *)
(* while a mirror clone writes it, or "complete"; owner is the attempt     *)
(* whose mirror clone made what is there, and harmed collects the attempts *)
(* whose mirror was deleted while they wrote or read it.                   *)
MaxAttempts == 3

Attempts == 1 .. MaxAttempts

MirrorInit ==
    /\ hpc = "clone_repo"
    /\ hst = [pc |-> [a \in Attempts |-> "check"], mirror |-> "absent", owner |-> 0,
              harmed |-> {}]

At(a, pos) == hpc = "clone_repo" /\ hst.pc[a] = pos

(* Line 59: mirror_path.exists().                                          *)
CheckCache(a) ==
    /\ At(a, "check")
    /\ hst' = [hst EXCEPT !.pc[a] = IF hst.mirror = "absent" THEN "toclone" ELSE "fetch"]
    /\ UNCHANGED <<hpc, outsideHarness>>

(* Lines 62-67: git remote update ends. It returns the mirror, or it fails *)
(* and line 65 deletes the mirror directory, whoever is using it.          *)
FetchEnds(a) ==
    /\ At(a, "fetch")
    /\ \/ /\ hst.mirror = "complete"
          /\ hst' = [hst EXCEPT !.pc[a] = "read"]
       \/ hst' = [hst EXCEPT !.pc[a] = "toclone", !.mirror = "absent", !.owner = 0,
                             !.harmed = @ \cup {b \in Attempts \ {a} :
                                                   hst.pc[b] \in {"clone", "read"}}]
    /\ UNCHANGED <<hpc, outsideHarness>>

(* Line 71: git clone --mirror starts. git refuses a destination that      *)
(* exists and is not empty.                                                *)
MirrorCloneStarts(a) ==
    /\ At(a, "toclone")
    /\ hst' = IF hst.mirror = "absent"
              THEN [hst EXCEPT !.pc[a] = "clone", !.mirror = "partial", !.owner = a]
              ELSE [hst EXCEPT !.pc[a] = "CalledProcessError"]
    /\ UNCHANGED <<hpc, outsideHarness>>

(* Line 71: git clone --mirror ends; it fails when its directory was taken *)
(* away.                                                                   *)
MirrorCloneEnds(a) ==
    /\ At(a, "clone")
    /\ hst' = IF hst.owner = a
              THEN [hst EXCEPT !.pc[a] = "read", !.mirror = "complete"]
              ELSE [hst EXCEPT !.pc[a] = "CalledProcessError"]
    /\ UNCHANGED <<hpc, outsideHarness>>

(* Lines 100-111: the working copy is cloned from the mirror; a git clone  *)
(* whose source was deleted while it ran may have read enough or not.      *)
WorkspaceCloneEnds(a) ==
    /\ At(a, "read")
    /\ \E end \in IF a \in hst.harmed THEN {"done", "CalledProcessError"} ELSE {"done"} :
           hst' = [hst EXCEPT !.pc[a] = end]
    /\ UNCHANGED <<hpc, outsideHarness>>

MirrorNext ==
    \E a \in Attempts :
        \/ CheckCache(a) \/ FetchEnds(a) \/ MirrorCloneStarts(a)
        \/ MirrorCloneEnds(a) \/ WorkspaceCloneEnds(a)

(* The subprocess and judge-model calls of the core, each with the time    *)
(* limit its call site passes, in seconds, or <<>> where it passes none:   *)
(* workspace.py through _run (default of line 31), diff_scorer.py lines    *)
(* 21, 33, 96 and 113, test_scorer.py line 120, llm_judge.py line 121.     *)
DefaultTimeout == 600

TestTimeouts == {120, DefaultTimeout}

Site(fn, cmd, timeout) == [fn |-> fn, cmd |-> cmd, timeout |-> timeout]

WorkspaceSites ==
    {Site("_ensure_cached_clone", "git remote update", <<300>>),
     Site("_ensure_cached_clone", "git clone --mirror", <<600>>),
     Site("clone_repo", "git clone", <<120>>),
     Site("clone_repo", "git remote set-url", <<DefaultTimeout>>),
     Site("checkout_parent", "git rev-parse", <<DefaultTimeout>>),
     Site("checkout_parent", "git checkout", <<DefaultTimeout>>),
     Site("snapshot", "git add", <<DefaultTimeout>>),
     Site("snapshot", "git status", <<DefaultTimeout>>),
     Site("snapshot", "git commit", <<DefaultTimeout>>),
     Site("snapshot", "git rev-parse", <<DefaultTimeout>>),
     Site("diff_snapshot", "git diff", <<DefaultTimeout>>)}
    \cup {Site("verify_tests", "sh -c", <<t>>) : t \in TestTimeouts}

TestSites == {Site("run_tests", "sh -c", <<t>>) : t \in TestTimeouts}

DiffScorerSites ==
    {Site("_files_changed_in_commit", "git diff-tree", <<>>),
     Site("_files_changed_between", "git diff", <<>>),
     Site("score_diff", "git rev-parse", <<>>),
     Site("score_diff", "git diff", <<>>)}

JudgeSites == {Site("_call_llm", "messages.create", <<>>)}

CallSites == WorkspaceSites \cup TestSites \cup DiffScorerSites \cup JudgeSites

(* What the function of a call site does with TimeoutExpired: line 63 of   *)
(* workspace.py goes on to the re-clone, verify_tests returns False (line  *)
(* 161), run_tests returns a record with timed_out (test_scorer.py line    *)
(* 131), every other function lets it through.                             *)
OnTimeout(site) ==
    CASE site.cmd = "git remote update" -> "re-clone"
      [] site.fn = "verify_tests" -> "False"
      [] site.fn = "run_tests" -> "timed_out"
      [] OTHER -> "TimeoutExpired"

(* How long a call without a time limit is watched.                        *)
MaxWait == 900

SubprocessInit ==
    /\ hpc = "subprocess"
    /\ \E site \in CallSites, hangs \in BOOLEAN :
           hst = [site |-> site, hangs |-> hangs, waited |-> 0, out |-> <<>>]

Waiting == hpc = "subprocess" /\ hst.out = <<>>

Limit(site) == IF site.timeout = <<>> THEN MaxWait ELSE site.timeout[1]

(* A minute passes while subprocess.run, or the client, waits.             *)
Wait ==
    /\ Waiting /\ hst.hangs
    /\ hst.waited + 60 <= Limit(hst.site)
    /\ hst' = [hst EXCEPT !.waited = @ + 60]
    /\ UNCHANGED <<hpc, outsideHarness>>

(* The subprocess ends by itself.                                          *)
ProcessEnds ==
    /\ Waiting /\ ~hst.hangs
    /\ \E end \in {"returned", "CalledProcessError"} :
           hst' = [hst EXCEPT !.out = <<end>>]
    /\ UNCHANGED <<hpc, outsideHarness>>

(* subprocess.run kills the child at its time limit and raises             *)
(* TimeoutExpired.                                                         *)
TimeoutExpires ==
    /\ Waiting /\ hst.hangs
    /\ hst.site.timeout # <<>>
    /\ hst.waited + 60 > hst.site.timeout[1]
    /\ hst' = [hst EXCEPT !.out = <<OnTimeout(hst.site)>>]
    /\ UNCHANGED <<hpc, outsideHarness>>

(* llm_judge.py lines 127-128: whatever the client raises of its own       *)
(* accord, at a moment the code does not choose, becomes LLMJudgeError.    *)
ClientGivesUp ==
    /\ Waiting /\ hst.hangs
    /\ hst.site \in JudgeSites
    /\ hst' = [hst EXCEPT !.out = <<"LLMJudgeError">>]
    /\ UNCHANGED <<hpc, outsideHarness>>

SubprocessNext == Wait \/ ProcessEnds \/ TimeoutExpires \/ ClientGivesUp

----------------------------------------------------------------------------
(* Specifications: one per component, the other component idle.            *)

JudgeAlone == JudgeInit /\ DiffIdle /\ TestIdle /\ WsIdle /\ HarnessIdle

DiffAlone == DiffInit /\ JudgeIdle /\ TestIdle /\ WsIdle /\ HarnessIdle

TestAlone == TestInit /\ JudgeIdle /\ DiffIdle /\ WsIdle /\ HarnessIdle

WsAlone == WsInit /\ JudgeIdle /\ DiffIdle /\ TestIdle /\ HarnessIdle

InjectionAlone == InjectionInit /\ CoreIdle

AggregateAlone == AggregateInit /\ CoreIdle

JudgeCmdAlone == JudgeCmdInit /\ CoreIdle

RunSingleAlone == RunSingleInit /\ CoreIdle

MirrorAlone == MirrorInit /\ CoreIdle

SubprocessAlone == SubprocessInit /\ CoreIdle

JudgeSpec == JudgeAlone /\ [][JudgeNext]_vars

DiffSpec == DiffAlone /\ [][DiffNext]_vars

TestSpec == TestAlone /\ [][RunTests]_vars

WsSpec == WsAlone /\ [][WsNext]_vars

InjectionSpec == InjectionAlone /\ [][InjectionCall]_vars

AggregateSpec == AggregateAlone /\ [][AggregateCall]_vars

JudgeCmdSpec == JudgeCmdAlone /\ [][JudgePair \/ SaveJudgements]_vars

RunSingleSpec == RunSingleAlone /\ [][RunSingleNext]_vars

MirrorSpec == MirrorAlone /\ [][MirrorNext]_vars

SubprocessSpec == SubprocessAlone /\ [][SubprocessNext]_vars

Init == JudgeAlone \/ DiffAlone \/ TestAlone \/ WsAlone \/ InjectionAlone
            \/ AggregateAlone \/ JudgeCmdAlone \/ RunSingleAlone
            \/ MirrorAlone \/ SubprocessAlone

Next == JudgeNext \/ DiffNext \/ RunTests \/ WsNext \/ InjectionCall
            \/ AggregateCall \/ JudgePair \/ SaveJudgements \/ RunSingleNext
            \/ MirrorNext \/ SubprocessNext

Spec == Init /\ [][Next]_vars

----------------------------------------------------------------------------
(* Claims about the diff scorer, checked under DiffSpec.                   *)

Scored == dpc = "done" /\ dres.status = "ok"

Rec == dres.record

Abs(x) == IF x < 0 THEN -x ELSE x

(* v, in ten-thousandths, is the rational n / d rounded to four decimals.  *)
IsRounded4(v, n, d) == 2 * Abs(v * d - 10000 * n) <= d

(* C6, as stated: the reported precision, recall and f1 lie in [0,1], f1   *)
(* is 0 iff precision + recall = 0 and otherwise f1 equals                 *)
(* 2 * precision * recall / (precision + recall).                          *)
C6_HarmonicMeanOfReported ==
    Scored =>
        /\ Rec.file_precision \in 0..10000
        /\ Rec.file_recall \in 0..10000
        /\ Rec.f1 \in 0..10000
        /\ Rec.f1 = 0 <=> Rec.file_precision + Rec.file_recall = 0
        /\ Rec.file_precision + Rec.file_recall # 0 =>
              Rec.f1 * (Rec.file_precision + Rec.file_recall)
                  = 2 * Rec.file_precision * Rec.file_recall

(* C6, amended: the reported precision, recall and f1 lie in [0,1] and are *)
(* the exact values rounded to four decimals; the exact f1 is 0 iff the    *)
(* exact precision + recall is 0 and otherwise is the harmonic mean of the *)
(* exact precision and recall.                                             *)
C6_RoundedHarmonicMean ==
    Scored =>
        LET p == dres.locals.precision
            r == dres.locals.recall
            f == dres.locals.f1
        IN  /\ Rec.file_precision \in 0..10000
            /\ Rec.file_recall \in 0..10000
            /\ Rec.f1 \in 0..10000
            /\ IsRounded4(Rec.file_precision, p[1], p[2])
            /\ IsRounded4(Rec.file_recall, r[1], r[2])
            /\ IsRounded4(Rec.f1, f[1], f[2])
            /\ f[1] = 0 <=> (p[1] = 0 /\ r[1] = 0)
            \* f * (p + r) = 2 * p * r, cross-multiplied
            /\ f[1] * (p[1] * r[2] + r[1] * p[2]) = 2 * p[1] * r[1] * f[2]

C6_Witness ==
    /\ Scored
    /\ Rec.file_precision = 6667
    /\ Rec.file_recall = 10000
    /\ Rec.f1 = 8000

(* C7: when both filtered file sets are empty, score_diff reports          *)
(* precision = recall = f1 = 1.0.                                          *)
C7_VacuousCaseScoresOne ==
    (Scored /\ Rec.files_touched = {} /\ Rec.ground_truth_files = {}) =>
        /\ Rec.file_precision = 10000
        /\ Rec.file_recall = 10000
        /\ Rec.f1 = 10000

(* What the code reports in the vacuous case: all zero, exact match true.  *)
VacuousCaseScoresZero ==
    (Scored /\ Rec.files_touched = {} /\ Rec.ground_truth_files = {}) =>
        /\ Rec.file_precision = 0
        /\ Rec.file_recall = 0
        /\ Rec.f1 = 0
        /\ Rec.exact_file_match

(* C8: precision is |agent & truth| / |agent| (0 when agent is empty) and  *)
(* recall is |agent & truth| / |truth| (0 when truth is empty), the record *)
(* carrying them rounded to four decimals; a non-empty agent set against   *)
(* an empty truth scores 0/0/0, two of two files with one in common score  *)
(* 0.5/0.5/0.5 without exact match, and equal sets of two score 1/1/1 with *)
(* exact match.                                                            *)
C8_PrecisionRecall ==
    Scored =>
        LET agent == Rec.files_touched
            truth == Rec.ground_truth_files
            common == Cardinality(agent \cap truth)
            p == dres.locals.precision
            r == dres.locals.recall
        IN  /\ IF agent = {} THEN p[1] = 0 /\ Rec.file_precision = 0
               ELSE /\ p[1] * Cardinality(agent) = common * p[2]
                    /\ IsRounded4(Rec.file_precision, common, Cardinality(agent))
            /\ IF truth = {} THEN r[1] = 0 /\ Rec.file_recall = 0
               ELSE /\ r[1] * Cardinality(truth) = common * r[2]
                    /\ IsRounded4(Rec.file_recall, common, Cardinality(truth))
            /\ (agent # {} /\ truth = {}) =>
                  (Rec.file_precision = 0 /\ Rec.file_recall = 0 /\ Rec.f1 = 0)
            /\ (Cardinality(agent) = 2 /\ Cardinality(truth) = 2 /\ common = 1) =>
                  /\ Rec.file_precision = 5000
                  /\ Rec.file_recall = 5000
                  /\ Rec.f1 = 5000
                  /\ ~Rec.exact_file_match
            /\ (agent = truth /\ Cardinality(agent) = 2) =>
                  /\ Rec.file_precision = 10000
                  /\ Rec.file_recall = 10000
                  /\ Rec.f1 = 10000
                  /\ Rec.exact_file_match

C8_Witness ==
    /\ Scored
    /\ Rec.files_touched = {PathA, PathNested}
    /\ Rec.ground_truth_files = {PathA, PathB}
    /\ Rec.file_precision = 5000
    /\ Rec.file_recall = 5000
    /\ Rec.f1 = 5000
    /\ ~Rec.exact_file_match

(* A path under .bobbin/ or .claude/, read off the path itself.            *)
UnderInfra(f) == Len(f) >= 2 /\ f[1] \in {".bobbin", ".claude"} /\ f[2] = "/"

InfraPaths == {f \in Paths : UnderInfra(f)}

(* Another content for each infrastructure path: -1 keeps the file as it   *)
(* is, 0 removes it, the others write it.                                  *)
InfraVariants == [InfraPaths -> {-1, 0, 1, 2, 9}]

WithInfra(tree, v) ==
    [p \in Paths |-> IF p \in InfraPaths /\ v[p] # -1 THEN v[p] ELSE tree[p]]

(* The workspace with the infrastructure paths changed to x on the agent's *)
(* side (snapshot, index, working tree) and to y in the ground truth.      *)
VariantCommits(x, y) ==
    [commits EXCEPT !["S"].tree = WithInfra(@, x), !["G"].tree = WithInfra(@, y)]

(* C9: the record is independent of the paths under .bobbin/ and .claude/: *)
(* any input that differs from this one only in such paths yields the      *)
(* same record, and no such path is in files_touched or                    *)
(* ground_truth_files.                                                     *)
C9_InfraIndependent ==
    Scored =>
        /\ \A f \in Rec.files_touched \cup Rec.ground_truth_files : ~UnderInfra(f)
        /\ \A x \in InfraVariants, y \in InfraVariants :
              ScoreDiffOutcome(VariantCommits(x, y), WithInfra(index, x), WithInfra(wt, x),
                               dargs).record = Rec

(* No file outside the infrastructure paths is removed on the agent's      *)
(* side: git's rename detection has no file to pair.                       *)
NothingRemoved ==
    \A p \in Paths \ InfraPaths :
        /\ commits["B"].tree[p] # 0 => commits["S"].tree[p] # 0
        /\ index[p] # 0 => wt[p] # 0

(* What the code does guarantee: no infrastructure path is ever listed,    *)
(* and the record depends on such paths only through git's rename          *)
(* detection, that is only when the agent's side removes a file. The       *)
(* agent's side and the ground truth are varied one at a time.             *)
InfraNeverListed ==
    Scored =>
        /\ \A f \in Rec.files_touched \cup Rec.ground_truth_files : ~UnderInfra(f)
        /\ NothingRemoved =>
              LET keep == [p \in InfraPaths |-> -1]
              IN  \A v \in InfraVariants :
                      /\ ScoreDiffOutcome(VariantCommits(v, keep), WithInfra(index, v),
                                          WithInfra(wt, v), dargs).record = Rec
                      /\ ScoreDiffOutcome(VariantCommits(keep, v), index, wt,
                                          dargs).record = Rec

(* The base and head trees C10 names, read off the arguments.              *)
ArgGiven(ref) == ref \notin {"None", ""}

ClaimedBaseTree ==
    IF ArgGiven(dargs.baseline) THEN commits[dargs.baseline].tree
    ELSE commits[commits[dargs.ground_truth_commit].parent].tree

ClaimedHeadTree ==
    IF ArgGiven(dargs.snapshot) THEN commits[dargs.snapshot].tree
    ELSE [p \in Paths |-> IF index[p] # 0 THEN wt[p] ELSE 0]

FilesOf(tree) == {p \in Paths : tree[p] # 0}

(* C11: for a root commit the set of files reported as changed in the      *)
(* commit is the full set of files of its tree; for a commit with a parent *)
(* it is the set of paths that differ between the parent's tree and the    *)
(* commit's tree.                                                          *)
C11_FilesChangedInCommit ==
    Scored =>
        LET c == commits[dargs.ground_truth_commit]
        IN  IF c.parent = "none"
            THEN dres.locals.gt_files = FilesOf(c.tree)
            ELSE dres.locals.gt_files
                     = {p \in Paths : commits[c.parent].tree[p] # c.tree[p]}

(* What the code does guarantee: C11 for root commits and commits with one *)
(* parent; for a merge commit the reported set is empty.                   *)
FilesChangedInOrdinaryCommit ==
    Scored =>
        LET c == commits[dargs.ground_truth_commit]
        IN  /\ c.others = {} => C11_FilesChangedInCommit
            /\ c.others # {} => dres.locals.gt_files = {}

(* The inputs on which score_diff cannot score, read off the arguments.    *)
Unscorable ==
    \/ dargs.ground_truth_commit \notin DOMAIN commits
    \/ ~ArgGiven(dargs.baseline) /\ commits[dargs.ground_truth_commit].parent = "none"
    \/ ArgGiven(dargs.baseline) /\ dargs.baseline \notin DOMAIN commits
    \/ ArgGiven(dargs.snapshot) /\ dargs.snapshot \notin DOMAIN commits

(* C12: whenever the ground-truth commit cannot be read, its parent cannot *)
(* be resolved, or the baseline/snapshot diff cannot be computed,          *)
(* score_diff ends in DiffScorerError and returns no score record.         *)
C12_FailureIsScorerError ==
    (dpc = "done" /\ Unscorable) =>
        /\ dres.status = "DiffScorerError"
        /\ dres.record = NoRecord

(* What the code does guarantee: a failure never becomes a score record;   *)
(* the exception is DiffScorerError for the ground-truth commit and its    *)
(* parent, CalledProcessError for the baseline and the snapshot.           *)
FailureNeverScored ==
    dpc = "done" =>
        /\ Unscorable <=> dres.status # "ok"
        /\ dres.status # "ok" =>
              /\ dres.record = NoRecord
              /\ dres.status \in {"DiffScorerError", "CalledProcessError"}
              /\ dres.status = "CalledProcessError" <=>
                    /\ dargs.ground_truth_commit \in DOMAIN commits
                    /\ ArgGiven(dargs.baseline)
                          \/ commits[dargs.ground_truth_commit].parent # "none"
                    /\ \/ ArgGiven(dargs.baseline) /\ dargs.baseline \notin DOMAIN commits
                       \/ ArgGiven(dargs.snapshot) /\ dargs.snapshot \notin DOMAIN commits

----------------------------------------------------------------------------
(* Claims about the test scorer, checked under TestSpec.                   *)

Returned == tpc = "done" /\ tres.status = "ok"

(* What the process wrote, as far as it was captured.                      *)
Captured ==
    (IF tproc.stdout = <<"None">> THEN <<>> ELSE tproc.stdout)
        \o (IF tproc.stderr = <<"None">> THEN <<>> ELSE tproc.stderr)

Decodable == \A i \in 1..Len(Captured) : Captured[i] # "\\xff"

C14_TimeoutIsAResult ==
    tpc = "done" =>
        /\ tproc.timeout =>
              /\ Returned
              /\ ~tres.passed
              /\ tres.exit_code = -1
              /\ tres.timed_out
              /\ Len(tres.output) = Len(Captured)
              /\ \A i \in 1..Len(Captured) :
                    tres.output[i] = Captured[i] \/ Captured[i] = "\\xff"
        /\ (Returned /\ ~tproc.timeout) =>
              (~tres.timed_out /\ tres.exit_code = tproc.returncode)

C14_Witness ==
    /\ Returned
    /\ tproc.timeout
    /\ tproc.stdout = <<"all", " ", "good", "\n">>
    /\ tproc.stderr = <<"None">>
    /\ tres.output = <<"all", " ", "good", "\n">>
    /\ tres.exit_code = -1
    /\ tres.timed_out
    /\ ~tres.passed

(* A pytest summary: a count of passed, failed, error or skipped tests     *)
(* (cargo's counts end in a semicolon).                                    *)
HasPytestSummary(out) ==
    \E i \in 1..Len(out) :
        /\ i + 2 <= Len(out)
        /\ out[i] \in {"0", "1", "2", "3", "5", "42"}
        /\ out[i + 1] = " "
        /\ out[i + 2] \in {"passed", "failed", "error", "errors", "errored", "skipped"}
        /\ (i + 3 <= Len(out) => out[i + 3] # ";")

HasCargoSummary(out) == \E i \in 1..Len(out) : out[i] = "test result:"

(* C15: output that carries only another framework's summary is never      *)
(* attributed to the pytest parser, and output that carries no framework's *)
(* summary yields an empty parse.                                          *)
C15_NoCrossFramework ==
    Returned =>
        /\ Get(tres.parsed, "framework", "") = "pytest" => HasPytestSummary(tres.output)
        /\ (~HasPytestSummary(tres.output) /\ ~HasCargoSummary(tres.output))
              => tres.parsed = EmptyDict

(* Whitespace, the word in, whitespace and a duration, anywhere.           *)
HasDurationTail(out) ==
    \E a \in 2..Len(out), b \in 2..Len(out) :
        /\ out[a - 1] \in {" ", "\n"}
        /\ out[a] = "in"
        /\ b > a + 1
        /\ \A m \in (a + 1)..(b - 1) : out[m] \in {" ", "\n"}
        /\ out[b] \in {"1.5s", "0.05s"}

(* What the code does guarantee: the pytest parser takes every output that *)
(* has "in <duration>" after whitespace, with or without counts, and the   *)
(* cargo parser is asked only about the rest.                              *)
PytestTakesEveryDuration ==
    Returned =>
        /\ Get(tres.parsed, "framework", "") = "pytest" <=> HasDurationTail(tres.output)
        /\ Get(tres.parsed, "framework", "") = "cargo-test" =>
              (HasCargoSummary(tres.output) /\ ~HasDurationTail(tres.output))
        /\ tres.parsed = EmptyDict => ~HasDurationTail(tres.output)


----------------------------------------------------------------------------
(* Claims about the workspace manager.                                     *)

(* The working copy as the i-th operation left it.                         *)
After(i) == IF i < Len(wlog) THEN wlog[i + 1].before ELSE wrepo

Calls(op) == {i \in 1..Len(wlog) : wlog[i].op = op}

Returns(op) == {i \in Calls(op) : wlog[i].status = "ok"}

NothingToStage(repo) == Stage(repo) = repo.head[2]

(* C16: two snapshot calls with no modification between them return the   *)
(* same hash, and a snapshot call on a working copy with nothing to stage  *)
(* creates no commit: HEAD and the history stay as they were and the       *)
(* current HEAD is returned.                                               *)
C16_SnapshotIdempotent ==
    \A i \in Returns("snapshot") :
        /\ (i + 1) \in Returns("snapshot") => wlog[i + 1].value = wlog[i].value
        /\ NothingToStage(wlog[i].before) =>
              /\ After(i).head = wlog[i].before.head
              /\ After(i).commits = wlog[i].before.commits
              /\ wlog[i].value = wlog[i].before.head

(* What holds of C16: without uncommitted changes in a nested repository,  *)
(* snapshot is idempotent and a call with nothing to stage is a no-op.     *)
SnapshotIdempotentWithoutNested ==
    \A i \in Returns("snapshot") :
        ~wlog[i].before.dirtySub =>
            /\ (i + 1) \in Returns("snapshot") => wlog[i + 1].value = wlog[i].value
            /\ NothingToStage(wlog[i].before) =>
                  /\ After(i).head = wlog[i].before.head
                  /\ After(i).commits = wlog[i].before.commits
                  /\ wlog[i].value = wlog[i].before.head

(* A second snapshot call in a row that found no nested changes and        *)
(* returned the hash of the first.                                         *)
SnapshotTwice ==
    \E i \in Returns("snapshot") :
        /\ (i + 1) \in Returns("snapshot")
        /\ ~wlog[i].before.dirtySub
        /\ wlog[i].value # wlog[i].before.head
        /\ wlog[i + 1].value = wlog[i].value

(* C17: when the working copy differs from HEAD in any tracked or          *)
(* untracked file, snapshot creates exactly one new commit whose tree is   *)
(* the complete state of the working copy, moves HEAD to it and returns    *)
(* its hash, which differs from the previous HEAD; no commit already in    *)
(* the history is rewritten.                                               *)
C17_SnapshotCapturesAll ==
    \A i \in Calls("snapshot") :
        LET before == wlog[i].before
        IN  /\ before.commits \subseteq After(i).commits
            /\ (wlog[i].fault = NoFault /\ before.wt # before.head[2]) =>
                  /\ wlog[i].status = "ok"
                  /\ wlog[i].value # before.head
                  /\ wlog[i].value \notin before.commits
                  /\ After(i).commits = before.commits \cup {wlog[i].value}
                  /\ After(i).head = wlog[i].value
                  /\ wlog[i].value[2] = before.wt

(* What holds of C17: snapshot never removes or changes a commit; with an  *)
(* identity configured and a change that .gitignore does not hide, it      *)
(* creates one commit on top of the previous HEAD, which holds every file  *)
(* but the untracked ignored ones.                                         *)
SnapshotCapturesUnignored ==
    \A i \in Calls("snapshot") :
        LET before == wlog[i].before
        IN  /\ before.commits \subseteq After(i).commits
            /\ (wlog[i].fault = NoFault /\ before.identity # "" /\ ~NothingToStage(before)) =>
                  /\ wlog[i].status = "ok"
                  /\ wlog[i].value \notin before.commits
                  /\ wlog[i].value[1] = before.head
                  /\ After(i).commits = before.commits \cup {wlog[i].value}
                  /\ After(i).head = wlog[i].value
                  /\ \A p \in WsPaths :
                        (p \notin Ignored \/ before.head[2][p] # 0) =>
                            wlog[i].value[2][p] = before.wt[p]

(* A snapshot that captured a new untracked file.                          *)
SnapshotTookUntracked ==
    \E i \in Returns("snapshot") :
        /\ wlog[i].before.head[2]["n"] = 0
        /\ wlog[i].value[2]["n"] = 7

(* C18: the outcome of snapshot does not depend on the ambient identity:   *)
(* in two working copies that differ only in the configured user identity, *)
(* none configured included, snapshot succeeds in both with the same       *)
(* result.                                                                 *)
C18_SnapshotIgnoresIdentity ==
    \A i \in Calls("snapshot") :
        wlog[i].fault = NoFault =>
            /\ wlog[i].status = "ok"
            /\ \A id \in Identities :
                  LET other == SnapshotOutcome([wlog[i].before EXCEPT !.identity = id], NoFault)
                  IN  other.status = "ok" /\ other.value = wlog[i].value

(* What holds of C18: with nothing to commit the identity plays no part,   *)
(* and with something to commit the tree and the parent of the snapshot    *)
(* are the same under every configured identity.                           *)
SnapshotTreeIgnoresIdentity ==
    \A i \in Calls("snapshot") :
        wlog[i].fault = NoFault =>
            \A id \in Identities :
                LET other == SnapshotOutcome([wlog[i].before EXCEPT !.identity = id], NoFault)
                IN  /\ (NothingToStage(wlog[i].before) /\ ~wlog[i].before.dirtySub) =>
                          other.status = "ok" /\ other.value = wlog[i].value
                    /\ (other.status = "ok" /\ wlog[i].status = "ok") =>
                          other.value[1] = wlog[i].value[1] /\ other.value[2] = wlog[i].value[2]

C20_FailuresAreWorkspaceErrors ==
    \A i \in 1..Len(wlog) : wlog[i].status \in {"ok", "WorkspaceError"}

(* What holds of C20: only the parent resolution of checkout_parent raises *)
(* a WorkspaceError, and a failed fetch of the mirror is absorbed by a     *)
(* fresh mirror clone.                                                     *)
OnlyParentResolutionIsTyped ==
    \A i \in 1..Len(wlog) :
        /\ wlog[i].status = "WorkspaceError" => wlog[i].op = "checkout_parent"
        /\ (wlog[i].op = "clone_repo" /\ wlog[i].fault.at = {1}) => wlog[i].status = "ok"

(* C22: on a cache hit _ensure_cached_clone fetches and prunes; when the   *)
(* fetch succeeds the existing mirror is returned and no mirror clone is   *)
(* run; when it fails, by exit code or time limit, the existing mirror is  *)
(* deleted and a fresh mirror is cloned at the same path. A successful     *)
(* return leaves a mirror at that path, and a failed re-clone does not     *)
(* leave the old mirror in place.                                          *)
C22_MirrorRefresh ==
    \A i \in Calls("clone_repo") :
        LET fault == wlog[i].fault
            old == wlog[i].before.mirror
        IN  /\ (old # "absent" /\ 1 \notin fault.at) =>
                  /\ After(i).mirror = old
                  /\ fault.at = {2} => wlog[i].status = "ok"
            /\ (old # "absent" /\ 1 \in fault.at /\ 2 \notin fault.at) =>
                  After(i).mirror = "cloned"
            /\ (old # "absent" /\ 1 \in fault.at /\ 2 \in fault.at) =>
                  /\ wlog[i].status = fault.kind
                  /\ After(i).mirror \notin {old, "cloned"}
            /\ wlog[i].status = "ok" =>
                  (After(i).mirror \in {"present", "cloned"} /\ After(i).cloned)

(* A cache hit whose fetch failed and whose re-clone failed too: the old   *)
(* mirror is gone.                                                         *)
C22_Witness ==
    \E i \in Calls("clone_repo") :
        /\ wlog[i].before.mirror = "present"
        /\ wlog[i].fault.at = {1, 2}
        /\ wlog[i].status = "CalledProcessError"
        /\ After(i).mirror = "absent"

----------------------------------------------------------------------------
(* Further claims about the diff scorer, checked under DiffSpec.           *)

----------------------------------------------------------------------------
(* Claims about the other functions of the harness.                        *)

Ran(fn) == hpc = fn /\ hst.out # <<>>

Out == hst.out[1]

(* C27: score_injection_usage uses the overlap arithmetic of the diff      *)
(* scorer: after de-duplication its precision, recall and f1 are those the *)
(* diff scorer computes for agent set = injected and truth set = touched,  *)
(* either or both sets empty included.                                     *)
C27_InjectionAsDiffScorer ==
    Ran("score_injection_usage") =>
        LET injected == ToSet(hst.in[1])
            touched == ToSet(hst.in[2])
            p == Precision(injected, touched)
            r == Recall(injected, touched)
            record == Score(injected, touched).record
        IN  /\ Out.injection_precision = Round4(p)
            /\ Out.injection_recall = Round4(r)
            /\ Out.injection_f1 = Round4(F1(p, r))
            /\ (injected \cup touched) \cap {PathBobbin} = {} =>
                  /\ Out.injection_precision = record.file_precision
                  /\ Out.injection_recall = record.file_recall
                  /\ Out.injection_f1 = record.f1
                  /\ Out.injected_and_touched = {} =>
                        (Out.injection_precision = 0 /\ Out.injection_f1 = 0)

(* A duplicated injected file and a duplicated touched file: one of two    *)
(* injected files touched, the one touched file injected.                  *)
C27_Witness ==
    /\ Ran("score_injection_usage")
    /\ hst.in = <<<<PathA, PathA, PathB>>, <<PathA, PathA>>>>
    /\ Out.injection_precision = 5000
    /\ Out.injection_recall = TenThousandths
    /\ Out.injection_f1 = 6667

(* The records whose test result passed.                                   *)
PassedRuns ==
    {i \in 1..Len(hst.in) :
        /\ "test_result" \in DOMAIN hst.in[i].d
        /\ "passed" \in DOMAIN hst.in[i].d["test_result"].d
        /\ hst.in[i].d["test_result"].d["passed"].n = 1}

(* C24: aggregate_across_runs returns all-zero statistics on an empty list *)
(* of records and never raises; on a non-empty list, records with missing  *)
(* nested fields included, it returns with count the number of records and *)
(* pass rate the number of records whose test result passed over count.    *)
C24_AggregateNeverRaises ==
    Ran("aggregate_across_runs") =>
        /\ Out.status = "ok"
        /\ hst.in = <<>> => \A k \in DOMAIN Out.stats : Out.stats[k][1] = 0
        /\ hst.in # <<>> =>
              /\ Out.stats["count"] = <<Len(hst.in), 1>>
              /\ Out.stats["test_pass_rate"] = <<Cardinality(PassedRuns), Len(hst.in)>>

(* What holds of C24: the same, for records whose test_result is absent or *)
(* a mapping.                                                              *)
AggregateOfTypedRecords ==
    Ran("aggregate_across_runs") =>
        IF \E i \in 1..Len(hst.in) :
               /\ "test_result" \in DOMAIN hst.in[i].d
               /\ hst.in[i].d["test_result"].type # "dict"
        THEN Out.status = "AttributeError"
        ELSE /\ Out.status = "ok"
             /\ hst.in = <<>> =>
                   (Out.judge_summary = <<>> /\ \A k \in DOMAIN Out.stats : Out.stats[k][1] = 0)
             /\ hst.in # <<>> =>
                   /\ Out.stats["count"] = <<Len(hst.in), 1>>
                   /\ Out.stats["test_pass_rate"] = <<Cardinality(PassedRuns), Len(hst.in)>>

(* The pairs with two non-empty diffs that come after the i-th visit.      *)
StillToJudge(i) ==
    {k \in (i + 1)..Len(hst.in) : hst.in[k].diff_a # "" /\ hst.in[k].diff_b # ""}

(* C25: when judge_pairwise raises LLMJudgeError for a pair, no judgement  *)
(* is recorded for that pair, and every remaining pair of the same task    *)
(* and of the other tasks is still judged and has a record of its own if   *)
(* its calls succeed.                                                      *)
C25_JudgeErrorIsLocal ==
    (hpc \notin {"idle", "judge"} /\ "seen" \in DOMAIN hst) =>
        \A i \in 1..Len(hst.seen) :
            hst.seen[i].end = "LLMJudgeError" =>
                /\ \A k \in 1..Len(hst.all_judgements) : hst.all_judgements[k] # hst.in[i]
                /\ \A k \in StillToJudge(i) :
                      /\ k <= Len(hst.seen)
                      /\ hst.seen[k].end = "none" =>
                            \E j \in 1..Len(hst.saved) : hst.saved[j] = hst.in[k]

(* What holds of C25: an LLMJudgeError leaves the loop running, so when no *)
(* other exception leaves judge_pairwise every pair with two diffs is      *)
(* judged and the judgements saved are those of the pairs whose calls      *)
(* succeeded.                                                              *)
JudgeErrorSkipsOnePair ==
    /\ (hpc = "judge" /\ "seen" \in DOMAIN hst) =>
          \A i \in 1..Len(hst.seen) :
              /\ hst.seen[i].pair = hst.in[i]
              /\ hst.seen[i].end = "LLMJudgeError" =>
                    \A k \in 1..Len(hst.all_judgements) : hst.all_judgements[k] # hst.in[i]
    /\ hpc = "judged" =>
          /\ Len(hst.seen) = Len(hst.in)
          /\ \A i \in 1..Len(hst.in) :
                (hst.seen[i].end = "none") <=> (\E j \in 1..Len(hst.saved) : hst.saved[j] = hst.in[i])

InAttempt == hpc \notin {"idle", "run_single:setup"} /\ "trace" \in DOMAIN hst

Traced(call) == {i \in 1..Len(hst.trace) : hst.trace[i] = call}

AgentWrote == IF "run_agent" \in hst.in.writers THEN {"a"} ELSE {}

(* C28: in a completed attempt the baseline is captured after the setup    *)
(* and before the agent starts, the post-attempt snapshot after the agent  *)
(* has ended and before the test command and the diff scoring, and the     *)
(* agent's file set is computed from that baseline to that snapshot:       *)
(* what the setup or the test run changed never counts as an agent change. *)
C28_SnapshotsAtTransitions ==
    (InAttempt /\ hst.status = "completed") =>
        \E b \in Traced("snapshot"), p \in Traced("snapshot") :
            /\ Traced("snapshot") = {b, p}
            /\ \A i \in Traced("clone_repo") \cup Traced("checkout_parent")
                        \cup Traced("verify_tests") \cup Traced("setup_bobbin") : i < b
            /\ \A i \in Traced("run_agent") : b < i /\ i < p
            /\ \A i \in Traced("run_tests") \cup Traced("score_diff") : p < i
            /\ hst.files_touched = AgentWrote

(* What holds of C28: the post-attempt snapshot is taken after the agent   *)
(* and before the test command and the scoring, so the test run never      *)
(* counts; with bobbin the baseline snapshot is taken after the setup and  *)
(* before the agent and the file set is the agent's; without bobbin no     *)
(* baseline is taken and the file set is measured from the parent commit.  *)
SnapshotBeforeScoring ==
    (InAttempt /\ hst.status = "completed") =>
        LET p == CHOOSE i \in Traced("snapshot") : \A j \in Traced("snapshot") : j <= i
        IN  /\ \A i \in Traced("run_agent") : i < p
            /\ \A i \in Traced("run_tests") \cup Traced("score_diff") : p < i
            /\ hst.snap[1][2] # hst.repo.wt => "test_command" \in hst.in.writers
            /\ IF hst.in.approach = "with-bobbin"
               THEN /\ Cardinality(Traced("snapshot")) = 2
                    /\ \A i \in Traced("run_agent") \cup Traced("setup_bobbin") :
                          \E b \in Traced("snapshot") :
                              IF hst.trace[i] = "run_agent" THEN b < i ELSE i < b
                    /\ hst.files_touched = AgentWrote
               ELSE /\ Cardinality(Traced("snapshot")) = 1
                    /\ hst.baseline = <<>>
                    /\ AgentWrote \subseteq hst.files_touched

(* C23: the first population of a slug's mirror by concurrent attempts is  *)
(* serialized: at most one mirror clone into the mirror path is in         *)
(* progress at any moment, and no attempt deletes or clones into the       *)
(* mirror path while another attempt is creating or reading it.            *)
C23_MirrorPopulationSerialized ==
    (hpc = "clone_repo" /\ "harmed" \in DOMAIN hst) =>
        /\ Cardinality({a \in Attempts : hst.pc[a] = "clone"}) <= 1
        /\ hst.harmed = {}

(* What holds of C23: nothing orders the attempts but git's refusal to     *)
(* clone into a directory that is not empty, so a mirror being written is  *)
(* written by the attempt that made it, and an attempt that found no       *)
(* mirror is never harmed before it has started its own mirror clone.      *)
MirrorWrittenByOwner ==
    (hpc = "clone_repo" /\ "harmed" \in DOMAIN hst) =>
        /\ hst.mirror = "partial" => hst.pc[hst.owner] = "clone"
        /\ \A a \in hst.harmed : hst.pc[a] \notin {"check", "fetch", "toclone"}

(* C26: every subprocess invocation of the core (the git commands of the   *)
(* workspace manager and of the diff scorer, the test command, the         *)
(* judge-model call) runs with an explicit timeout, so that a subprocess   *)
(* that hangs forever is waited for no longer than that timeout.           *)
C26_EverySubprocessIsTimed ==
    (hpc = "subprocess" /\ hst.hangs /\ hst.waited > 0) =>
        /\ hst.site.timeout # <<>>
        /\ hst.waited <= hst.site.timeout[1]

(* What holds of C26: the calls of the workspace manager and the test      *)
(* command have a time limit, a hung one is waited for no longer than it,  *)
(* and its function then returns or raises.                                *)
WorkspaceAndTestCallsAreTimed ==
    (hpc = "subprocess" /\ hst.site \in WorkspaceSites \cup TestSites) =>
        /\ hst.site.timeout # <<>>
        /\ hst.waited <= hst.site.timeout[1]
        /\ (hst.hangs /\ hst.out # <<>>) =>
               /\ hst.out[1] = OnTimeout(hst.site)
               /\ hst.waited + 60 > hst.site.timeout[1]

(* The verdict with its two sides exchanged.                               *)
Mirrored(verdict) ==
    [dimensions |-> [d \in DimSet |-> [a |-> verdict.dimensions[d].b,
                                        b |-> verdict.dimensions[d].a]],
     overall_winner |-> CASE verdict.overall_winner = WinA -> WinB
                          [] verdict.overall_winner = WinB -> WinA
                          [] OTHER -> verdict.overall_winner,
     bias_detected |-> verdict.bias_detected]

(* judge_pairwise(B, A) when the judge model answers each ordered pair as  *)
(* it did in this judgement of (A, B): its forward call shows (B, A), which *)
(* was answered with flipped_raw, and its flipped call shows (A, B), which *)
(* was answered with forward.                                              *)
SwappedJudgement == MergeResults(flipped_raw, FlipResult(forward))

(* C29: judge_pairwise is symmetric in its two sides: when the judge       *)
(* model's response is a function of the ordered pair it is shown, judging *)
(* (B, A) yields the mirrored verdict of judging (A, B): the same          *)
(* bias_detected, the winner with a and b exchanged, every dimension's a   *)
(* and b scores exchanged; and a judge that prefers the first-presented    *)
(* side in both calls gets a tie.                                          *)
C29_JudgeSymmetric ==
    jpc = "done" =>
        /\ SwappedJudgement = Mirrored(merged)
        /\ (forward.overall_winner = WinA /\ flipped_raw.overall_winner = WinA)
              => merged.overall_winner = WinTie

C29_Witness ==
    /\ jpc = "done"
    /\ forward.overall_winner = WinA
    /\ flipped_raw.overall_winner = WinB
    /\ merged.overall_winner = WinA
    /\ SwappedJudgement.overall_winner = WinB
    /\ merged.dimensions["completeness"].a = 162
    /\ SwappedJudgement.dimensions["completeness"].b = 162
    /\ SwappedJudgement.dimensions["completeness"].a # 162

====
